---- MODULE Spec2Model ----
(***************************************************************************)
(* Resource-lifecycle orchestrators of the repository:                     *)
(*   BedrockKnowledgeBase            (src/utils/knowledge_base.py)         *)
(*   BedrockStructuredKnowledgeBase  (src/utils/structured_knowledge_base.py) *)
(* The provider (AWS) is modelled as a record of the resources that exist; *)
(* every remote call the orchestrators issue is appended to `trace`.       *)
(***************************************************************************)
EXTENDS Integers, Sequences, FiniteSets, TLC

(* ------------------------------ bounds --------------------------------- *)
MaxDataSources == 2      \* longest data_sources list drawn in Init
MaxOps         == 3      \* top-level operations (constructor, ingestion, teardown) per behaviour
MaxPolls       == 1      \* non-terminal answers a status poll may give before it moves on
MaxFaults      == 1      \* provider errors injected per behaviour

(* --------------------------- module tables ----------------------------- *)
valid_generation_models ==
    { "us.anthropic.claude-sonnet-4-20250514-v1:0",
      "us.anthropic.claude-sonnet-4-5-20250929-v1:0",
      "us.anthropic.claude-haiku-4-5-20251001-v1:0",
      "global.anthropic.claude-sonnet-4-20250514-v1:0",
      "global.anthropic.claude-sonnet-4-5-20250929-v1:0",
      "global.anthropic.claude-haiku-4-5-20251001-v1:0",
      "amazon.nova-micro-v1:0",
      "amazon.nova-lite-v1:0",
      "amazon.nova-pro-v1:0",
      "amazon.nova-premier-v1:0" }

structured_valid_generation_models ==
    { "us.anthropic.claude-sonnet-4-20250514-v1:0",
      "us.anthropic.claude-sonnet-4-5-20250929-v1:0",
      "us.anthropic.claude-haiku-4-5-20251001-v1:0",
      "global.anthropic.claude-sonnet-4-20250514-v1:0",
      "global.anthropic.claude-sonnet-4-5-20250929-v1:0",
      "global.anthropic.claude-haiku-4-5-20251001-v1:0",
      "amazon.titan-t2-lite-v1",
      "amazon.titan-embed-text-v1",
      "amazon.titan-text-lite-v1",
      "amazon.titan-text-express-v1",
      "amazon.titan-text-lambda-v1",
      "amazon.nova-micro-v1:0",
      "amazon.nova-lite-v1:0",
      "amazon.nova-pro-v1:0",
      "amazon.nova-premier-v1:0" }

valid_reranking_models == { "cohere.rerank-v3-5:0", "amazon.rerank-v1:0" }

valid_embedding_models ==
    { "cohere.embed-v4:0",
      "cohere.embed-multilingual-v3",
      "cohere.embed-english-v3",
      "us.cohere.embed-v4:0",
      "global.cohere.embed-v4:0",
      "amazon.titan-embed-text-v1",
      "amazon.titan-embed-text-v2:0",
      "amazon.titan-embed-g1-text-02",
      "amazon.titan-embed-image-v1",
      "amazon.nova-2-multimodal-embeddings-v1:0" }

embedding_context_dimensions ==
    [ m \in valid_embedding_models |->
        CASE m = "amazon.titan-embed-text-v1"               -> 1536
          [] m = "amazon.nova-2-multimodal-embeddings-v1:0" -> 3072
          [] OTHER                                          -> 1024 ]

multimodal_compatible_models ==
    { "cohere.embed-v4:0", "us.cohere.embed-v4:0", "global.cohere.embed-v4:0",
      "amazon.titan-embed-image-v1" }

cohere_v4_models ==
    { "cohere.embed-v4:0", "us.cohere.embed-v4:0", "global.cohere.embed-v4:0" }

(* constructor defaults *)
default_embedding_model  == "amazon.nova-2-multimodal-embeddings-v1:0"
default_generation_model == "global.anthropic.claude-haiku-4-5-20251001-v1:0"
default_reranking_model  == "cohere.rerank-v3-5:0"
structured_default_generation_model == "anthropic.claude-haiku-4-5-20251001-v1:0"

(* ---------------------------- pure functions --------------------------- *)
\* variants of _validate_models that drop one of its checks
_validate_models_without_reranking_check(c) ==
    IF c.embedding_model \notin valid_embedding_models THEN "ValueError"
    ELSE IF c.generation_model \notin valid_generation_models THEN "ValueError"
    ELSE IF c.multi_modal /\ c.embedding_model \notin multimodal_compatible_models
         THEN "ValueError"
    ELSE "ok"

_validate_models_without_multimodal_check(c) ==
    IF c.embedding_model \notin valid_embedding_models THEN "ValueError"
    ELSE IF c.generation_model \notin valid_generation_models THEN "ValueError"
    ELSE IF c.reranking_model \notin valid_reranking_models THEN "ValueError"
    ELSE "ok"

\* BedrockKnowledgeBase._validate_models: the exception it raises, or "ok".
\* The three allow-list checks come first, the multimodal check last.
_validate_models(c) ==
    IF c.embedding_model \notin valid_embedding_models THEN "ValueError"
    ELSE IF c.generation_model \notin valid_generation_models THEN "ValueError"
    ELSE IF c.reranking_model \notin valid_reranking_models THEN "ValueError"
    ELSE IF c.multi_modal /\ c.embedding_model \notin multimodal_compatible_models
         THEN "ValueError"
    ELSE "ok"

\* BedrockStructuredKnowledgeBase._validate_models
structured_validate_models(c) ==
    IF c.generation_model \notin structured_valid_generation_models
    THEN "ValueError" ELSE "ok"

\* a variant of _get_embedding_dimensions that answers a model missing from
\* the table with a default dimension
_get_embedding_dimensions_with_default(embedding_model, multi_modal) ==
    IF embedding_model \notin DOMAIN embedding_context_dimensions
    THEN [err |-> "ok", value |-> 1024]
    ELSE [err |-> "ok", value |-> embedding_context_dimensions[embedding_model]]

\* BedrockKnowledgeBase._get_embedding_dimensions: [err, value]
_get_embedding_dimensions(embedding_model, multi_modal) ==
    IF embedding_model \notin DOMAIN embedding_context_dimensions
    THEN [err |-> "ValueError", value |-> 0]
    ELSE IF multi_modal /\ embedding_model \in cohere_v4_models
         THEN [err |-> "ok", value |-> 1024]
         ELSE [err |-> "ok", value |-> embedding_context_dimensions[embedding_model]]

(* ------------------------------- state --------------------------------- *)
VARIABLES
    cfg,      \* constructor arguments, fixed for the behaviour
    aws,      \* resources that exist at the provider
    self,     \* attributes of the last successfully constructed orchestrator
    pc,       \* position of the running operation, "idle" between operations
    loc,      \* local variables of the running operation
    trace,    \* remote calls issued by the running (or last) operation, in order
    err,      \* exception raised by the last finished operation, "ok" if none
    ret,      \* return value of the last finished operation
    ops,      \* top-level operations started so far
    faults,   \* provider errors injected into the running operation
    hist      \* the record of the last finished operation (empty before it)

vars == <<cfg, aws, self, pc, loc, trace, err, ret, ops, faults, hist>>

(* ------------------------ configuration inputs ------------------------- *)
S3Descriptor  == [type |-> "S3",  bucket_name |-> "docs-bucket"]
WebDescriptor == [type |-> "WEB", bucket_name |-> "none"]
Descriptors   == {S3Descriptor, WebDescriptor}

RECURSIVE SeqsUpTo(_, _)
SeqsUpTo(S, n) ==
    IF n = 0 THEN {<<>>}
    ELSE LET shorter == SeqsUpTo(S, n - 1)
         IN  shorter \cup {Append(q, x) : q \in shorter, x \in S}

EmbeddingInputs  == valid_embedding_models \cup {"unknown.embed-v1"}
GenerationInputs == {default_generation_model, structured_default_generation_model}
RerankingInputs  == {default_reranking_model, "unknown.rerank-v1"}

\* Every embedding model is drawn with multimodal on and off.  The models
\* differ in validation and in the dimension only, so the longer data-source
\* lists and the graph backend are drawn with one model; multimodal adds
\* the intermediate bucket only, so it is drawn with at most one data source.
UnstructuredConfigs ==
    { c \in [ kind              : {"unstructured"},
              embedding_model   : EmbeddingInputs,
              generation_model  : GenerationInputs,
              reranking_model   : RerankingInputs,
              multi_modal       : BOOLEAN,
              vector_store      : {"OPENSEARCH_SERVERLESS", "NEPTUNE_ANALYTICS"},
              chunking_strategy : {"FIXED_SIZE"},
              data_sources      : SeqsUpTo(Descriptors, MaxDataSources) ] :
        \/ /\ c.embedding_model = "cohere.embed-v4:0"
           /\ c.multi_modal => Len(c.data_sources) <= 1
        \/ /\ c.data_sources = <<>>
           /\ c.vector_store = "OPENSEARCH_SERVERLESS"
           /\ c.generation_model = default_generation_model
           /\ c.reranking_model = default_reranking_model }

StructuredConfigs ==
    [ kind              : {"structured"},
      embedding_model   : {default_embedding_model},
      generation_model  : GenerationInputs,
      reranking_model   : {default_reranking_model},
      multi_modal       : {FALSE},
      vector_store      : {"REDSHIFT"},
      chunking_strategy : {"FIXED_SIZE"},
      data_sources      : {<<>>} ]

Configs == UnstructuredConfigs \cup StructuredConfigs

(* names derived from the configuration (all deterministic) *)
kb_execution_role_name   == "kb_execution_role"
intermediate_bucket_name == "intermediate-bucket"

\* self.bucket_names, __init__
bucket_names(c) ==
    LET s3 == SelectSeq(c.data_sources, LAMBDA d : d.type = "S3")
    IN  [i \in 1..Len(s3) |-> s3[i].bucket_name]

\* self.secrets_arns, __init__ (no SaaS descriptor is drawn: always empty)
secrets_arns(c) ==
    SelectSeq(c.data_sources,
              LAMBDA d : d.type \in {"CONFLUENCE", "SHAREPOINT", "SALESFORCE"})

\* if multi_modal or chunking_strategy == "CUSTOM": intermediate bucket is set
has_intermediate_bucket(c) == c.multi_modal \/ c.chunking_strategy = "CUSTOM"

Range(q) == {q[i] : i \in 1..Len(q)}

(* ------------------------------ provider ------------------------------- *)
PolicyNames == {"fm", "cw", "s3", "sm", "lambda", "bda", "neptune", "oss", "rs"}

NoResources ==
    [ buckets         |-> {},
      foreign_buckets |-> {},    \* bucket names that another account owns ...
      shared_buckets  |-> {},    \* ... and those of them the caller may access
      log_group       |-> FALSE,
      deliveries      |-> {},
      iam_roles       |-> {},
      policy_versions |-> [p \in PolicyNames |-> 0],
      versions        |-> [p \in PolicyNames |-> <<>>],  \* oldest first
      newest_listed_first |-> TRUE,  \* the order of list_policy_versions
      attached        |-> {},
      granted         |-> {},    \* <<policy, resource>>: what the default versions allow
      aoss_policies   |-> {},
      collections     |-> {},
      indices         |-> {},
      graphs          |-> {},
      kbs             |-> {},
      data_sources    |-> {},
      other_kbs       |-> 0,     \* knowledge bases of other names in the account
      unreliable      |-> {},    \* provisioning steps whose calls the provider may fail
      peer            |-> <<>>,  \* a second orchestrator that uses the account at
                                 \* the same time, while the first one takes steps
      next_id         |-> 1 ]

\* the provider cap on the versions of one policy
VersionCap == 5

\* the versions of a policy that has just been created
first_version == <<[id |-> 1, default |-> TRUE]>>

\* policy p holds the versions vs
with_versions(p, vs, a) ==
    [a EXCEPT !.versions[p] = vs, !.policy_versions[p] = Len(vs)]

\* every resource the provider holds, tagged by class
Resources(a) ==
    {<<"bucket", b>> : b \in a.buckets}
    \cup (IF a.log_group THEN {<<"log_group", "lg">>} ELSE {})
    \cup {<<"delivery", d>> : d \in a.deliveries}
    \cup {<<"role", r>> : r \in a.iam_roles}
    \cup {<<"policy", p>> : p \in {q \in PolicyNames : a.policy_versions[q] > 0}}
    \cup {<<"aoss_policy", p>> : p \in a.aoss_policies}
    \cup {<<"collection", ToString(c.id)>> : c \in a.collections}
    \cup {<<"index", ToString(i)>> : i \in a.indices}
    \cup {<<"graph", ToString(g.id)>> : g \in a.graphs}
    \cup {<<"kb", ToString(k)>> : k \in a.kbs}
    \cup {<<"data_source", ToString(d.dataSourceId)>> : d \in a.data_sources}

Call(api, arg) == [api |-> api, arg |-> arg]

NoInstance ==
    [ exists        |-> FALSE,
      role          |-> "none",
      roles         |-> <<>>,
      collection_id |-> 0,
      graph_id      |-> 0,
      knowledge_base|-> 0,
      data_source   |-> <<>> ]

NoLocals ==
    [ attempt |-> 0, idx |-> 0, job |-> "none", polls |-> 0,
      faults0 |-> 0,        \* errors injected before the operation began
      results |-> <<>>,     \* how the iteration of each visited connector ended
      jobs    |-> <<>>,     \* the status at the provider of the job of each
                            \* visited connector ("none": no job was started)
      failed  |-> {},       \* places in the trace of the calls of the operation
                            \* that the provider failed and the caller let escape
      caught  |-> {},       \* ... and of those whose error the caller caught
      before  |-> NoResources,
      new     |-> NoInstance,
      flags   |-> [delete_s3_bucket |-> FALSE,
                   delete_iam_roles_and_policies |-> FALSE,
                   delete_lambda_function |-> FALSE] ]

\* list_knowledge_bases(maxResults=100): the size of the one page that is read
maxResults == 100

\* Knowledge bases of other names are drawn as none or a full page of them;
\* the full page only for the graph and the structured configurations with
\* at most one connector (the listing is the same code for every backend).
OtherKbCounts(c) ==
    IF Len(c.data_sources) <= 1 /\ c.embedding_model \in valid_embedding_models
                                /\ c.vector_store # "OPENSEARCH_SERVERLESS"
    THEN {0, maxResults} ELSE {0}

Init ==
    /\ cfg \in Configs
    \* a requested bucket name may belong to another account
    /\ \E fb \in SUBSET Range(bucket_names(cfg)) :
           \* the account may hold knowledge bases of other names
           \E n \in OtherKbCounts(cfg) :
               aws = [NoResources EXCEPT !.foreign_buckets = fb, !.other_kbs = n]
    /\ self = NoInstance
    /\ pc = "idle"
    /\ loc = NoLocals
    /\ trace = <<>>
    /\ err = "ok"
    /\ ret = "none"
    /\ ops = 0
    /\ faults = 0
    /\ hist = <<>>

(* ------------------------- operation framing --------------------------- *)
\* an operation is called on the idle program
Begin ==
    /\ pc = "idle"
    /\ ops < MaxOps
    /\ ops' = ops + 1

\* what hist remembers of the operation before the last one: whether there
\* was none, a construction that completed with no provider error, or any
\* other operation
NoOperation == [op |-> "none", err |-> "ok", faults |-> 0]
Summary(h) ==
    IF h = <<>> THEN NoOperation
    ELSE IF h[1].op = "construct" /\ h[1].err = "ok" /\ h[1].faults = 0
    THEN [op |-> "construct", err |-> "ok", faults |-> 0]
    ELSE [op |-> "other", err |-> "any", faults |-> 0]

Forget(h) == IF h = <<>> THEN <<>> ELSE <<Summary(h)>>

\* while the operation runs it has neither returned nor raised, and hist
\* keeps the summary only
Running ==
    /\ err' = "ok"
    /\ ret' = "none"
    /\ hist' = Forget(hist)

\* an operation returns (e = "ok") or raises e; hist holds the record of the
\* last finished operation, with a summary of the one before it
Finish(op, e, r) ==
    /\ pc' = "idle"
    /\ err' = e
    /\ ret' = r
    /\ hist' = << [ op      |-> op,
                    err     |-> e,
                    faults  |-> faults' - loc'.faults0,
                    prev    |-> Summary(hist),
                    \* identifiers the orchestrator holds before and after
                    ids0    |-> <<self.role, self.collection_id + self.graph_id,
                                  self.knowledge_base>>,
                    ids     |-> <<self'.role, self'.collection_id + self'.graph_id,
                                  self'.knowledge_base>>,
                    created |-> Resources(aws') \ Resources(loc'.before),
                    deleted |-> Resources(loc'.before) \ Resources(aws') ] >>

\* a provider error is injected only while the budget lasts
Inject(f) ==
    /\ f # 0 => faults < MaxFaults
    /\ faults' = IF f # 0 THEN faults + 1 ELSE faults

\* The calls of the knowledge-base step, of the ingestion and of the teardown
\* may fail in every behaviour; those of the other provisioning steps only in
\* the behaviours whose provider is unreliable in that step.  The positions
\* among n calls at which such a call may fail (0: none fails)
Faults(step, n) == IF step \in aws.unreliable THEN 0..n ELSE {0}

\* the exceptions of a call that the provider failed for a reason of its own
\* (botocore's ClientError, opensearch-py's TransportError)
ProviderErrors == {"ClientError", "TransportError"}

\* r is what a step made of the provider and of the trace: when the step let
\* a provider error escape, the failed call is the last one of its trace
Failed(r) == IF r.err \in ProviderErrors THEN {Len(r.trace)} ELSE {}

(* ---------------------------- _setup_resources ------------------------- *)
\* the same pipeline with the execution role created before the buckets
_setup_resources_role_first(c, step) ==
    CASE step = "start" -> "create_bedrock_execution_role_multi_ds"
      [] step = "create_bedrock_execution_role_multi_ds" -> "create_s3_bucket"
      [] step = "create_s3_bucket" -> "create_cloudwatch_log_group"
      [] step = "create_cloudwatch_log_group" ->
             IF c.vector_store = "OPENSEARCH_SERVERLESS"
             THEN "create_policies_in_oss" ELSE "create_neptune"
      [] OTHER -> "create_knowledge_base"

\* lines 300-407: the step that follows each step of the pipeline. Step 1 is
\* the buckets and then the log group, step 2 the execution role, step 3 the
\* collection and its index (or the graph), and last the knowledge base
_setup_resources(c, step) ==
    CASE step = "start" -> "create_s3_bucket"
      [] step = "create_s3_bucket" -> "create_cloudwatch_log_group"
      [] step = "create_cloudwatch_log_group" ->
             "create_bedrock_execution_role_multi_ds"
      [] step = "create_bedrock_execution_role_multi_ds" ->
             IF c.vector_store = "OPENSEARCH_SERVERLESS"
             THEN "create_policies_in_oss" ELSE "create_neptune"
      [] OTHER -> "create_knowledge_base"

(* ===================== BedrockKnowledgeBase.__init__ =================== *)
\* lines 130-213: the clients, two STS lookups, the attribute assignments,
\* _validate_models(), then _setup_resources()
\* c: the arguments of the call
__init__(c) ==
    /\ c.kind = "unstructured"
    /\ Begin
    /\ cfg' = c
    /\ faults' = faults
    /\ trace' = << Call("sts.get_caller_identity", "Account"),
                   Call("sts.get_caller_identity", "Arn") >>
    /\ loc' = [NoLocals EXCEPT !.before = aws, !.faults0 = faults,
                               !.new = [NoInstance EXCEPT
                                           !.exists = TRUE,
                                           !.roles = <<kb_execution_role_name>>]]
    /\ aws' = aws
    /\ IF _validate_models(c) # "ok"
       THEN /\ self' = self
            /\ Finish("construct", _validate_models(c), "none")
       ELSE /\ pc' = _setup_resources(c, "start")
            /\ self' = self /\ Running

\* an orchestrator is constructed with the configuration of the behaviour
Construct == __init__(cfg)

\* the configurations with the names of c and fewer descriptors
with_fewer_data_sources(c) ==
    {[c EXCEPT !.data_sources = SubSeq(@, 1, n)] : n \in 1..(Len(c.data_sources) - 1)}

\* an orchestrator of the same names is constructed after another, with
\* fewer descriptors
ConstructNarrower ==
    /\ ops > 0
    /\ \E c \in with_fewer_data_sources(cfg) : __init__(c)

\* the constructor raises e out of _setup_resources: no instance is bound
ConstructRaises(e) ==
    /\ self' = self
    /\ Finish("construct", e, "none")

(* --------------------------- create_s3_bucket -------------------------- *)
buckets_to_check(c) ==
    bucket_names(c) \o
    (IF has_intermediate_bucket(c) THEN <<intermediate_bucket_name>> ELSE <<>>)

\* a creation list that ignores what the probes answered
buckets_to_create_unprobed(check, a) == check

\* head_bucket answers without error for a bucket that exists and that the
\* caller may access, whoever owns it (no ExpectedBucketOwner is passed)
head_bucket_succeeds(b, a) == b \in a.buckets \cup a.shared_buckets

\* lines 421-441: the buckets whose probe raised are the ones to create
buckets_to_create(check, a) ==
    SelectSeq(check, LAMBDA b : ~ head_bucket_succeeds(b, a))

\* lines 456-484: what the except clause of create_bucket raises for the
\* error code of the provider ("ok": handled, the loop goes on)
create_bucket_raises(code) ==
    CASE code = "BucketAlreadyExists"     -> "ValueError"
      [] code = "BucketAlreadyOwnedByYou" -> "ok"
      [] OTHER                            -> "ClientError"

\* the answer of the provider to create_bucket(b); failed: the call meets an
\* error of the provider that has nothing to do with the name
create_bucket_answer(b, failed, a) ==
    IF failed THEN "InternalError"
    ELSE IF b \in a.foreign_buckets THEN "BucketAlreadyExists"
    ELSE IF b \in a.buckets THEN "BucketAlreadyOwnedByYou"
    ELSE "ok"

\* the creation loop, lines 443-484.
\* f is the position in todo of the call the provider fails (0: none)
RECURSIVE create_buckets(_, _, _, _, _)
create_buckets(todo, i, f, a, tr) ==
    IF i > Len(todo) THEN [aws |-> a, trace |-> tr, err |-> "ok"]
    ELSE LET b      == todo[i]
             tr2    == Append(tr, Call("s3.create_bucket", b))
             answer == create_bucket_answer(b, i = f, a)
         IN  IF answer = "ok"
             THEN create_buckets(todo, i + 1, f,
                                 [a EXCEPT !.buckets = @ \cup {b}], tr2)
             ELSE IF create_bucket_raises(answer) = "ok"
             THEN create_buckets(todo, i + 1, f, a, tr2)
             ELSE [aws |-> a, trace |-> tr2, err |-> create_bucket_raises(answer)]

create_s3_bucket(c, f, a, tr) ==
    LET check   == buckets_to_check(c)
        heads   == [i \in 1..Len(check) |-> Call("s3.head_bucket", check[i])]
    IN  create_buckets(buckets_to_create(check, a), 1, f, a, tr \o heads)

CreateS3Bucket ==
    /\ pc = "create_s3_bucket"
    /\ \E f \in Faults("Storage",
                       Len(buckets_to_create(buckets_to_check(cfg), aws))) :
         /\ Inject(f)
         /\ LET r == create_s3_bucket(cfg, f, aws, trace)
            IN  /\ aws' = r.aws
                /\ trace' = r.trace
                /\ loc' = [loc EXCEPT !.failed = @ \cup Failed(r)]
                /\ UNCHANGED <<cfg, ops>>
                /\ IF r.err # "ok"
                   THEN ConstructRaises(r.err)
                   ELSE /\ pc' = _setup_resources(cfg, "create_s3_bucket")
                        /\ UNCHANGED <<self, err, ret, hist>>

(* ---------------------- create_cloudwatch_log_group -------------------- *)
create_cloudwatch_log_group(a, tr) ==
    [ aws   |-> [a EXCEPT !.log_group = TRUE],
      trace |-> tr \o << Call("logs.create_log_group", "lg"),
                         Call("logs.put_retention_policy", "lg") >>,
      err   |-> "ok" ]

CreateCloudwatchLogGroup ==
    /\ pc = "create_cloudwatch_log_group"
    /\ cfg.kind = "unstructured"
    /\ LET r == create_cloudwatch_log_group(aws, trace)
       IN  /\ aws' = r.aws
           /\ trace' = r.trace
    /\ pc' = _setup_resources(cfg, "create_cloudwatch_log_group")
    /\ UNCHANGED <<cfg, self, loc, err, ret, ops, faults, hist>>

(* ---------------- create_bedrock_execution_role_multi_ds --------------- *)
\* the `policies` list, lines 927-974
execution_role_policies(c) ==
    <<"fm", "cw">>
    \o (IF bucket_names(c) # <<>> THEN <<"s3">> ELSE <<>>)
    \o (IF secrets_arns(c) # <<>> THEN <<"sm">> ELSE <<>>)
    \o (IF c.chunking_strategy = "CUSTOM" THEN <<"lambda">> ELSE <<>>)
    \o (IF c.multi_modal THEN <<"bda">> ELSE <<>>)
    \o (IF c.vector_store = "NEPTUNE_ANALYTICS" THEN <<"neptune">> ELSE <<>>)

\* lines 985-995: what the except clause of create_role raises for the error
\* of the provider ("ok": the existing role is fetched)
create_role_raises(code) ==
    IF code = "EntityAlreadyExists" THEN "ok" ELSE "ClientError"

\* the answer of the provider to create_role
create_role_answer(role, failed, a) ==
    IF failed THEN "ServiceFailure"
    ELSE IF role \in a.iam_roles THEN "EntityAlreadyExists"
    ELSE "ok"

\* lines 976-1005: create the role or fetch the existing one
create_or_get_role(role, failed, a, tr) ==
    LET answer == create_role_answer(role, failed, a)
        tr1    == Append(tr, Call("iam.create_role", role))
    IN  IF answer = "ok"
        THEN [ aws |-> [a EXCEPT !.iam_roles = @ \cup {role}],
               trace |-> tr1, err |-> "ok" ]
        ELSE IF create_role_raises(answer) = "ok"
        THEN [ aws   |-> a,
               trace |-> tr1 \o << Call("iam.get_role", role),
                                   Call("iam.update_assume_role_policy", role) >>,
               err   |-> "ok" ]
        ELSE [aws |-> a, trace |-> tr1, err |-> create_role_raises(answer)]

\* lines 777-833: the resources a policy document names; only the documents
\* of the bucket policy and of the secrets policy depend on the descriptors
policy_document(c, p) ==
    CASE p = "s3" -> Range(buckets_to_check(c))
      [] p = "sm" -> Range(secrets_arns(c))
      [] OTHER    -> {"*"}

\* the provider stores a document as the default version of policy p
with_default_version(p, doc, a) ==
    [a EXCEPT !.granted = {g \in @ : g[1] # p} \cup {<<p, r>> : r \in doc}]

Reverse(q) == [i \in 1..Len(q) |-> q[Len(q) + 1 - i]]

\* the answer of list_policy_versions; the provider documents no order
list_policy_versions(p, a) ==
    IF a.newest_listed_first THEN Reverse(a.versions[p]) ELSE a.versions[p]

\* lines 1037-1045: of a list of five versions or more, the first version
\* in the listed order that is not the default is deleted
versions_to_delete(listed) ==
    LET others == SelectSeq(listed, LAMBDA v : ~ v.default)
    IN  IF Len(listed) >= VersionCap /\ others # <<>> THEN {others[1].id} ELSE {}

\* lines 1049-1053, create_policy_version(SetAsDefault=True) on versions vs
\* below the cap: the new version is the default and the only default
create_policy_version(vs) ==
    [i \in 1..Len(vs) |-> [vs[i] EXCEPT !.default = FALSE]]
        \o <<[id |-> vs[Len(vs)].id + 1, default |-> TRUE]>>

\* lines 1012-1068, one iteration: create the policy, or add a version to the
\* existing one and make it the default (a full version list loses one
\* non-default version first), then attach it to the role.
\* fc is the call of the iteration that the provider fails: a failed
\* create_policy is raised again, a failed create_policy_version and a
\* failed attach_role_policy are printed
create_or_update_policy(role, c, p, fc, a, tr) ==
    LET n      == a.policy_versions[p]
        gone   == versions_to_delete(list_policy_versions(p, a))
        tr1    == Append(tr, Call("iam.create_policy", p))
        tr2    == tr1 \o <<Call("iam.list_policy_versions", p)>>
                      \o (IF gone # {} THEN <<Call("iam.delete_policy_version", p)>>
                                       ELSE <<>>)
                      \o <<Call("iam.create_policy_version", p)>>
        kept   == SelectSeq(a.versions[p], LAMBDA v : v.id \notin gone)
        a1     == IF n = 0
                  THEN with_default_version(p, policy_document(c, p),
                                            with_versions(p, first_version, a))
                  ELSE IF fc = "update" \/ Len(kept) >= VersionCap
                  THEN with_versions(p, kept, a)
                  ELSE with_default_version(p, policy_document(c, p),
                           with_versions(p, create_policy_version(kept), a))
        tr3    == Append(IF n = 0 THEN tr1 ELSE tr2,
                         Call("iam.attach_role_policy", p))
    IN  IF fc = "create"
        THEN [aws |-> a, trace |-> tr1, err |-> "ClientError", caught |-> {}]
        ELSE [ aws    |-> IF fc = "attach" THEN a1
                          ELSE [a1 EXCEPT !.attached = @ \cup {<<role, p>>}],
               trace  |-> tr3,
               err    |-> "ok",
               caught |-> IF fc = "attach" THEN {Len(tr3)}
                          ELSE IF fc = "update" /\ n > 0 THEN {Len(tr2)}
                          ELSE {} ]

\* the call of the k-th iteration that is at place f among the calls of the
\* method the provider may fail: create_role first, then create_policy,
\* create_policy_version and attach_role_policy of each iteration
failed_call(f, k) ==
    CASE f = 3 * k - 1 -> "create"
      [] f = 3 * k     -> "update"
      [] f = 3 * k + 1 -> "attach"
      [] OTHER         -> "none"

RECURSIVE attach_policies(_, _, _, _, _, _, _, _)
attach_policies(role, c, ps, k, f, a, tr, caught) ==
    IF k > Len(ps) THEN [aws |-> a, trace |-> tr, err |-> "ok", caught |-> caught]
    ELSE \* r, the outcome of iteration k, is drawn from a singleton so that
         \* it is computed once however often the iterations after it read it
         CHOOSE x \in
             { IF r.err # "ok" THEN r
               ELSE attach_policies(role, c, ps, k + 1, f, r.aws, r.trace,
                                    caught \cup r.caught) :
               r \in {create_or_update_policy(role, c, ps[k], failed_call(f, k),
                                              a, tr)} } : TRUE

\* f is the place of the call the provider fails (0: none)
create_bedrock_execution_role_multi_ds(c, f, a, tr) ==
    LET r == create_or_get_role(kb_execution_role_name, f = 1, a, tr)
    IN  IF r.err # "ok"
        THEN [aws |-> r.aws, trace |-> r.trace, err |-> r.err, caught |-> {}]
        ELSE attach_policies(kb_execution_role_name, c,
                             execution_role_policies(c), 1, f, r.aws, r.trace, {})

CreateBedrockExecutionRoleMultiDs ==
    /\ pc = "create_bedrock_execution_role_multi_ds"
    /\ \E f \in Faults("Identity", 1 + 3 * Len(execution_role_policies(cfg))) :
         /\ Inject(f)
         /\ LET r == create_bedrock_execution_role_multi_ds(cfg, f, aws, trace)
            IN  /\ aws' = r.aws
                /\ trace' = r.trace
                /\ UNCHANGED <<cfg, ops>>
                /\ IF r.err # "ok"
                   THEN /\ loc' = [loc EXCEPT !.failed = @ \cup Failed(r)]
                        /\ ConstructRaises(r.err)
                   ELSE /\ loc' = [loc EXCEPT !.new.role = kb_execution_role_name,
                                               !.caught = @ \cup r.caught]
                        /\ pc' = _setup_resources(cfg,
                                      "create_bedrock_execution_role_multi_ds")
                        /\ UNCHANGED <<self, err, ret, hist>>

(* ------------------------- create_policies_in_oss ---------------------- *)
\* each of the three policies is created, or fetched on ConflictException;
\* any other error of a create call propagates.
\* f is the place of the create call the provider fails (0: none)
RECURSIVE create_policies_in_oss(_, _, _, _, _)
create_policies_in_oss(names, k, f, a, tr) ==
    IF k > Len(names) THEN [aws |-> a, trace |-> tr, err |-> "ok"]
    ELSE LET p  == names[k]
             cr == IF p = "data" THEN "aoss.create_access_policy"
                                 ELSE "aoss.create_security_policy"
             gt == IF p = "data" THEN "aoss.get_access_policy"
                                 ELSE "aoss.get_security_policy"
         IN  IF f = k
             THEN [aws |-> a, trace |-> Append(tr, Call(cr, p)), err |-> "ClientError"]
             ELSE IF p \in a.aoss_policies
             THEN create_policies_in_oss(names, k + 1, f, a,
                      tr \o <<Call(cr, p), Call(gt, p)>>)
             ELSE create_policies_in_oss(names, k + 1, f,
                      [a EXCEPT !.aoss_policies = @ \cup {p}],
                      Append(tr, Call(cr, p)))

CreatePoliciesInOss ==
    /\ pc = "create_policies_in_oss"
    /\ \E f \in Faults("Index", 3) :
         /\ Inject(f)
         /\ LET r == create_policies_in_oss(<<"encryption", "network", "data">>,
                                            1, f, aws, trace)
            IN  /\ aws' = r.aws
                /\ trace' = r.trace
                /\ loc' = [loc EXCEPT !.failed = @ \cup Failed(r)]
                /\ UNCHANGED <<cfg, ops>>
                /\ IF r.err # "ok"
                   THEN ConstructRaises(r.err)
                   ELSE /\ pc' = "create_oss"
                        /\ UNCHANGED <<self, err, ret, hist>>

(* ------------------------------ create_oss ----------------------------- *)
\* lines 1208-1225: create the collection or fetch the one of that name, then
\* the first status request; an error of create_collection other than
\* ConflictException propagates
CreateOss ==
    /\ pc = "create_oss"
    /\ \E f \in Faults("Index", 1) :
         /\ Inject(f)
         /\ UNCHANGED <<cfg, ops>>
         /\ IF f = 1
            THEN /\ aws' = aws
                 /\ trace' = Append(trace, Call("aoss.create_collection", "collection"))
                 /\ loc' = [loc EXCEPT !.failed = @ \cup {Len(trace) + 1}]
                 /\ ConstructRaises("ClientError")
            ELSE /\ IF aws.collections = {}
                    THEN /\ aws' = [aws EXCEPT
                                      !.collections = {[id |-> aws.next_id,
                                                        status |-> "CREATING"]},
                                      !.next_id = @ + 1]
                         /\ trace' = trace \o
                               << Call("aoss.create_collection", "collection"),
                                  Call("aoss.batch_get_collection", "collection") >>
                         /\ loc' = [loc EXCEPT !.new.collection_id = aws.next_id,
                                               !.polls = 0]
                    ELSE /\ aws' = aws
                         /\ trace' = trace \o
                               << Call("aoss.create_collection", "collection"),
                                  Call("aoss.batch_get_collection", "collection"),
                                  Call("aoss.batch_get_collection", "collection") >>
                         /\ loc' = [loc EXCEPT
                                      !.new.collection_id =
                                          (CHOOSE c \in aws.collections : TRUE).id,
                                      !.polls = 0]
                 /\ pc' = "create_oss_wait"
                 /\ UNCHANGED <<self, err, ret, hist>>

\* lines 1248-1259: the document names the collection of the identifier
\* that create_oss passes
oss_policy_document(collection_id) == {ToString(collection_id)}

\* create_oss_policy_attach_bedrock_execution_role, lines 1247-1277, called
\* under the try/except of create_oss (1235-1245): create_policy stores the
\* document unless the policy exists, which the method tolerates; any other
\* error of create_policy and any error of attach_role_policy leave the
\* method and are printed by create_oss.
\* f is the call the provider fails (0: none, 1: create_policy, 2: attach)
create_oss_policy_attach_bedrock_execution_role(role, collection_id, f, a, tr) ==
    LET tr1 == Append(tr, Call("iam.create_policy", "oss"))
        tr2 == Append(tr1, Call("iam.attach_role_policy", "oss"))
        a1  == IF a.policy_versions["oss"] > 0 THEN a
               ELSE with_default_version("oss", oss_policy_document(collection_id),
                                         with_versions("oss", first_version, a))
    IN  IF f = 1 THEN [aws |-> a, trace |-> tr1, caught |-> {Len(tr1)}]
        ELSE IF f = 2 THEN [aws |-> a1, trace |-> tr2, caught |-> {Len(tr2)}]
        ELSE [ aws    |-> [a1 EXCEPT !.attached = @ \cup {<<role, "oss">>}],
               trace  |-> tr2,
               caught |-> {} ]

\* a loop that ends whatever the status
collection_polling_gives_up(status) == FALSE

\* line 1226: while response["collectionDetails"][0]["status"] == "CREATING"
collection_polling_continues(status) == status = "CREATING"

\* lines 1226-1245: the status seen by the last request decides; CREATING
\* sleeps and asks again, anything else attaches the IAM policy and returns
CreateOssWait ==
    /\ pc = "create_oss_wait"
    /\ LET c == CHOOSE x \in aws.collections : TRUE
       IN  \/ /\ collection_polling_continues(c.status)
              /\ loc.polls < MaxPolls
              /\ loc' = [loc EXCEPT !.polls = @ + 1]
              /\ aws' = aws
              /\ trace' = Append(trace, Call("aoss.batch_get_collection", "collection"))
              /\ pc' = pc
              /\ faults' = faults
           \/ /\ collection_polling_continues(c.status)
              \* the provider finishes the collection before the next request
              /\ aws' = [aws EXCEPT !.collections = {[c EXCEPT !.status = "ACTIVE"]}]
              /\ loc' = [loc EXCEPT !.polls = @ + 1]
              /\ trace' = Append(trace, Call("aoss.batch_get_collection", "collection"))
              /\ pc' = pc
              /\ faults' = faults
           \/ /\ ~ collection_polling_continues(c.status)
              /\ \E f \in Faults("Collection access", 2) :
                   /\ Inject(f)
                   /\ LET r == create_oss_policy_attach_bedrock_execution_role(
                                   loc.new.role, loc.new.collection_id, f,
                                   aws, trace)
                      IN  /\ aws' = r.aws
                          /\ trace' = r.trace
                          /\ loc' = [loc EXCEPT !.polls = 0,
                                                !.caught = @ \cup r.caught]
              /\ pc' = "create_vector_index"
    /\ UNCHANGED <<cfg, self, err, ret, ops, hist>>

(* -------------------------- create_vector_index ------------------------ *)
\* lines 1279-1322: the index is created in the collection; a RequestError
\* (the index exists) is printed and raised again, any other error of the
\* request propagates
CreateVectorIndex ==
    /\ pc = "create_vector_index"
    /\ LET d   == _get_embedding_dimensions(cfg.embedding_model, cfg.multi_modal)
           cid == loc.new.collection_id
       IN  IF d.err # "ok"
           THEN /\ UNCHANGED <<aws, trace>>
                /\ UNCHANGED <<cfg, loc, ops, faults>>
                /\ ConstructRaises(d.err)
           ELSE \E f \in Faults("Index", 1) :
                /\ Inject(f)
                /\ trace' = Append(trace, Call("oss.indices.create", ToString(d.value)))
                /\ UNCHANGED <<cfg, ops>>
                /\ IF f = 1
                   THEN /\ aws' = aws
                        /\ loc' = [loc EXCEPT !.failed = @ \cup {Len(trace) + 1}]
                        /\ ConstructRaises("TransportError")
                   ELSE /\ loc' = loc
                        /\ IF cid \in aws.indices
                           THEN /\ aws' = aws
                                /\ ConstructRaises("RequestError")
                           ELSE /\ aws' = [aws EXCEPT !.indices = @ \cup {cid}]
                                /\ pc' = _setup_resources(cfg, "create_vector_index")
                                /\ UNCHANGED <<self, err, ret, hist>>

(* ----------------------------- create_neptune -------------------------- *)
\* lines 1072-1086: create_graph is not guarded; a graph of that name makes
\* the provider answer ConflictException, which propagates like any other
\* error of the request
CreateNeptune ==
    /\ pc = "create_neptune"
    /\ LET d == _get_embedding_dimensions(cfg.embedding_model, cfg.multi_modal)
       IN  IF d.err # "ok"
           THEN /\ UNCHANGED <<aws, trace>>
                /\ UNCHANGED <<cfg, loc, ops, faults>>
                /\ ConstructRaises(d.err)
           ELSE \E f \in Faults("Index", 1) :
                /\ Inject(f)
                /\ UNCHANGED <<cfg, ops>>
                /\ IF f = 1 \/ aws.graphs # {}
                   THEN /\ aws' = aws
                        /\ loc' = [loc EXCEPT !.failed = @ \cup
                                      (IF f = 1 THEN {Len(trace) + 1} ELSE {})]
                        /\ trace' = Append(trace, Call("neptune.create_graph", ToString(d.value)))
                        /\ ConstructRaises(IF f = 1 THEN "ClientError"
                                                    ELSE "ConflictException")
                   ELSE /\ aws' = [aws EXCEPT
                                     !.graphs = {[id |-> aws.next_id,
                                                  status |-> "CREATING",
                                                  deletionProtection |-> TRUE]},
                                     !.next_id = @ + 1]
                        /\ loc' = [loc EXCEPT !.new.graph_id = aws.next_id, !.polls = 0]
                        /\ trace' = trace \o
                              << Call("neptune.create_graph", ToString(d.value)),
                                 Call("neptune.get_graph", ToString(aws.next_id)) >>
                        /\ pc' = "create_neptune_wait"
                        /\ UNCHANGED <<self, err, ret, hist>>

\* what the polling loop does with an error of its status request: both
\* except clauses print it, and the method returns the graph id
poll_error_raises(e) == "ok"

\* lines 1087-1100: the polling loop
CreateNeptuneWait ==
    /\ pc = "create_neptune_wait"
    /\ LET g == CHOOSE x \in aws.graphs : x.id = loc.new.graph_id
           call == Call("neptune.get_graph", ToString(g.id))
       IN  \/ /\ loc.polls < MaxPolls
              \* the request answers CREATING: sleep and ask again
              /\ aws' = aws
              /\ loc' = [loc EXCEPT !.polls = @ + 1]
              /\ trace' = Append(trace, call)
              /\ pc' = pc
              /\ UNCHANGED <<self, err, ret, faults, hist>>
           \/ \* the request answers AVAILABLE: the loop ends
              /\ aws' = [aws EXCEPT !.graphs = {[g EXCEPT !.status = "AVAILABLE"]}]
              /\ loc' = [loc EXCEPT !.polls = 0]
              /\ trace' = Append(trace, call)
              /\ pc' = _setup_resources(cfg, "create_neptune")
              /\ UNCHANGED <<self, err, ret, faults, hist>>
           \/ \* the request fails: the loop ends while the graph is CREATING
              /\ 1 \in Faults("Index", 1)
              /\ Inject(1)
              /\ aws' = aws
              /\ trace' = Append(trace, call)
              /\ IF poll_error_raises("ClientError") = "ok"
                 THEN /\ loc' = [loc EXCEPT !.polls = 0,
                                            !.caught = @ \cup {Len(trace) + 1}]
                      /\ pc' = _setup_resources(cfg, "create_neptune")
                      /\ UNCHANGED <<self, err, ret, hist>>
                 ELSE /\ loc' = [loc EXCEPT !.failed = @ \cup {Len(trace) + 1}]
                      /\ ConstructRaises(poll_error_raises("ClientError"))
    /\ UNCHANGED <<cfg, ops>>

(* -------------------------- create_knowledge_base ---------------------- *)
\* @retry(..., stop_max_attempt_number=7)
stop_max_attempt_number == 7

\* a decorator that allows one attempt more
should_retry_once_more(attempts) == attempts <= stop_max_attempt_number

\* a decorator that never calls the method again
should_not_retry(attempts) == FALSE

\* the decorator calls the method again after an attempt has raised, unless
\* that was attempt number stop_max_attempt_number (attempts: those made,
\* the failed one included)
should_retry(attempts) == attempts < stop_max_attempt_number

\* the knowledge base of the configured name is in the page that
\* list_knowledge_bases(maxResults=100) answers: always when the account
\* holds fewer entities than a page, otherwise as the provider orders them
\* (first: the provider lists it among the first maxResults)
in_listed_page(first, a) == a.other_kbs < maxResults \/ first

\* a lookup that finds no knowledge base
no_knowledge_base(a) == 0

\* lines 1454-1462: the id of the listed knowledge base whose name is
\* self.kb_name (the provider keeps one knowledge base per name)
named_knowledge_base(a) == CHOOSE k \in a.kbs : TRUE

\* lines 1442-1469: create the knowledge base or, on ConflictException, list
\* one page of knowledge bases, pick the id of the one with the configured
\* name (None when the page has none) and fetch it.
\* f = -1: the provider fails the create call with a transient error
create_or_get_kb(f, first, a, tr) ==
    LET tr1 == Append(tr, Call("bedrock.create_knowledge_base", "kb"))
        tr2 == Append(tr1, Call("bedrock.list_knowledge_bases", "kb"))
    IN  IF f = -1
        THEN [aws |-> a, trace |-> tr1, err |-> "ClientError", kb |-> 0]
        ELSE IF a.kbs = {}
        THEN [ aws   |-> [a EXCEPT !.kbs = {a.next_id}, !.next_id = @ + 1],
               trace |-> tr1, err |-> "ok", kb |-> a.next_id ]
        ELSE IF in_listed_page(first, a)
        THEN [ aws   |-> a,
               trace |-> Append(tr2, Call("bedrock.get_knowledge_base", "kb")),
               err   |-> "ok",
               kb    |-> named_knowledge_base(a) ]
        ELSE \* get_knowledge_base(knowledgeBaseId=None) is rejected
             [ aws   |-> a,
               trace |-> Append(tr2, Call("bedrock.get_knowledge_base", "None")),
               err   |-> "ParamValidationError",
               kb    |-> 0 ]

\* an outer handler that lets the error of the wiring escape
log_delivery_raises_again(e) == e

\* lines 604-608: what the outer except clause of configure_log_delivery
\* raises for an error of the wiring: it prints two warnings
log_delivery_raises(e) == "ok"

\* configure_log_delivery: source, destination, delivery; an existing source
\* or destination is described instead.
\* g is the place of the create call the provider fails (0: none): a failed
\* source or destination call ends the wiring, a failed delivery call is
\* printed by the inner handler
configure_log_delivery(g, a, tr) ==
    LET src == Append(tr, Call("logs.create_delivery_source", "source"))
        tr1 == IF "source" \in a.deliveries
               THEN Append(src, Call("logs.describe_delivery_sources", "source"))
               ELSE src
        a1  == [a EXCEPT !.deliveries = @ \cup {"source"}]
        dst == Append(tr1, Call("logs.create_delivery_destination", "destination"))
        tr2 == IF "destination" \in a.deliveries
               THEN Append(dst, Call("logs.describe_delivery_destinations",
                                     "destination"))
               ELSE dst
        a2  == [a1 EXCEPT !.deliveries = @ \cup {"destination"}]
        tr3 == Append(tr2, Call("logs.create_delivery", "delivery"))
        a3  == [a2 EXCEPT !.deliveries = @ \cup {"delivery"}]
        e   == log_delivery_raises("ClientError")
    IN  CASE g = 1 -> [aws |-> a,  trace |-> src, err |-> e]
          [] g = 2 -> [aws |-> a1, trace |-> dst, err |-> e]
          [] g = 3 -> [aws |-> a2, trace |-> tr3, err |-> "ok"]
          [] OTHER -> [aws |-> a3, trace |-> tr3, err |-> "ok"]

\* lines 1602-1676: the types for which an if statement binds ds_name and
\* data_source_configuration
connector_types == {"S3", "CONFLUENCE", "SHAREPOINT", "SALESFORCE", "WEB"}

\* ds_name (and with it data_source_configuration) when iteration i reaches
\* the create call: the if statements have no else branch, so for a type
\* they do not name the variables keep what an earlier iteration bound
RECURSIVE ds_name(_, _)
ds_name(dss, i) ==
    IF dss[i].type \in connector_types THEN dss[i].type
    ELSE IF i > 1 THEN ds_name(dss, i - 1)
    ELSE "unbound"

\* create_data_sources, lines 1491-1719: one create_data_source per
\* descriptor, named <kb_id>-<type>; nothing is caught inside the loop.
\* f is the position of the descriptor whose call the provider fails (0: none)
RECURSIVE create_data_sources(_, _, _, _, _, _, _)
create_data_sources(kb, dss, i, f, a, tr, ds_list) ==
    IF i > Len(dss)
    THEN [aws |-> a, trace |-> tr, err |-> "ok", ds_list |-> ds_list]
    ELSE LET name == ds_name(dss, i)
             tr2  == Append(tr, Call("bedrock.create_data_source", name))
         IN  IF name = "unbound"
             THEN [aws |-> a, trace |-> tr, err |-> "UnboundLocalError",
                   ds_list |-> ds_list]
             ELSE IF i = f
             THEN [aws |-> a, trace |-> tr2, err |-> "ClientError",
                   ds_list |-> ds_list]
             ELSE IF \E d \in a.data_sources :
                        d.knowledgeBaseId = kb /\ d.name = name
             THEN [aws |-> a, trace |-> tr2, err |-> "ConflictException",
                   ds_list |-> ds_list]
             ELSE create_data_sources(kb, dss, i + 1, f,
                      [a EXCEPT !.data_sources = @ \cup
                                   {[dataSourceId |-> a.next_id,
                                     knowledgeBaseId |-> kb,
                                     name |-> name]},
                                !.next_id = @ + 1],
                      tr2, Append(ds_list, a.next_id))

\* one attempt of create_knowledge_base, lines 1391-1489.  On
\* ConflictException out of create_data_sources the handler lists and fetches
\* a data source, and the return statement then reads ds_list, which was
\* never bound: UnboundLocalError
\* f, g: the calls the provider fails in the knowledge base and its
\* connectors, and in the wiring of the log delivery
create_knowledge_base(c, f, g, first, a, tr) ==
    LET k == create_or_get_kb(f, first, a, tr)
        l == configure_log_delivery(g, k.aws, k.trace)
        d == create_data_sources(k.kb, c.data_sources, 1, f, l.aws, l.trace, <<>>)
        caught == IF g # 0 /\ l.err = "ok" THEN {Len(l.trace)} ELSE {}
    IN  IF k.err # "ok"
        THEN [ aws |-> k.aws, trace |-> k.trace, err |-> k.err,
               kb |-> 0, ds_list |-> <<>>, caught |-> {} ]
        ELSE IF l.err # "ok"
        THEN [ aws |-> l.aws, trace |-> l.trace, err |-> l.err,
               kb |-> k.kb, ds_list |-> <<>>, caught |-> {} ]
        ELSE IF d.err = "ConflictException"
        THEN [ aws |-> d.aws,
               trace |-> d.trace \o << Call("bedrock.list_data_sources", "kb"),
                                       Call("bedrock.get_data_source", "kb") >>,
               err |-> "UnboundLocalError", kb |-> k.kb, ds_list |-> <<>>,
               caught |-> caught ]
        ELSE [ aws |-> d.aws, trace |-> d.trace, err |-> d.err,
               kb |-> k.kb, ds_list |-> d.ds_list, caught |-> caught ]

\* the constructor returns: the new object is bound
ConstructReturns(new) ==
    /\ self' = new
    /\ Finish("construct", "ok", "instance")

\* the orders in which the provider may list: they matter only when the
\* create call meets the existing knowledge base in a full account
ListingOrders(f, a) ==
    IF f # -1 /\ a.kbs # {} /\ a.other_kbs >= maxResults
    THEN BOOLEAN ELSE {TRUE}

CreateKnowledgeBase ==
    /\ pc = "create_knowledge_base"
    /\ cfg.kind = "unstructured"
    /\ \E f \in -1..Len(cfg.data_sources) : \E first \in ListingOrders(f, aws) :
      \E g \in Faults("Log delivery", 3) :
         /\ ~ (f # 0 /\ g # 0)
         /\ Inject(f + g)
         /\ LET r == create_knowledge_base(cfg, f, g, first, aws, trace)
            IN  /\ aws' = r.aws
                /\ trace' = r.trace
                /\ UNCHANGED <<cfg, ops>>
                /\ IF r.err = "ok"
                   THEN /\ loc' = [loc EXCEPT !.attempt = @ + 1,
                                              !.failed = @ \cup Failed(r),
                                              !.caught = @ \cup r.caught]
                        /\ ConstructReturns([loc.new EXCEPT
                                               !.knowledge_base = r.kb,
                                               !.data_source = r.ds_list])
                   ELSE IF should_retry(loc.attempt + 1)
                   THEN \* the decorator sleeps and calls the method again
                        /\ loc' = [loc EXCEPT !.attempt = @ + 1,
                                              !.failed = @ \cup Failed(r),
                                              !.caught = @ \cup r.caught]
                        /\ pc' = pc
                        /\ UNCHANGED <<self, err, ret, hist>>
                   ELSE /\ loc' = [loc EXCEPT !.attempt = @ + 1,
                                              !.failed = @ \cup Failed(r),
                                              !.caught = @ \cup r.caught]
                        /\ ConstructRaises(r.err)

(* ============================ start_ingestion_job ====================== *)
TerminalStatuses == {"COMPLETE", "FAILED", "STOPPED"}

\* connectors the loop visits: enumerate(self.data_sources) in the
\* unstructured class, the single self.data_source in the structured one
connectors_to_ingest ==
    IF cfg.kind = "structured" THEN 1 ELSE Len(cfg.data_sources)

\* while job["status"] not in ["COMPLETE", "FAILED", "STOPPED"]
polling_continues_in_progress_ends(job) ==
    job \notin TerminalStatuses \cup {"IN_PROGRESS"}
polling_continues(job) == job \notin TerminalStatuses

\* except Exception: the message is printed and the for loop goes on with the
\* connector after idx
next_after_exception_abort(idx) == connectors_to_ingest + 1
next_after_exception(idx) == idx + 1

StartIngestionJob ==
    /\ self.exists
    /\ Begin
    /\ faults' = faults
    /\ loc' = [NoLocals EXCEPT !.before = aws, !.faults0 = faults, !.idx = 1]
    /\ trace' = <<>>
    /\ pc' = "ingest_start"
    /\ UNCHANGED <<cfg, aws, self>> /\ Running

\* the loop head and the start call of connector idx (lines 1726-1733); an
\* exception of the call is caught by the except of that iteration
IngestStart ==
    /\ pc = "ingest_start"
    /\ UNCHANGED <<cfg, aws, self, ops>>
    /\ IF loc.idx > connectors_to_ingest
       THEN \* the loop is over: the method falls off its end
            /\ UNCHANGED <<loc, trace, faults>>
            /\ Finish("ingest", "ok", "None")
       ELSE LET ds == self.data_source[loc.idx]
            IN  /\ trace' = Append(trace,
                        Call("bedrock.start_ingestion_job", ToString(ds)))
                /\ UNCHANGED <<err, ret, hist>>
                /\ \E f \in {0, 1} :
                     /\ Inject(f)
                     /\ IF f = 1 \/ ~ \E d \in aws.data_sources : d.dataSourceId = ds
                        THEN \* except Exception: "Couldn't start job"
                             /\ loc' = [loc EXCEPT !.idx = next_after_exception(@),
                                              !.job = "exception",
                                              !.results = Append(@, "exception"),
                                              !.jobs = Append(@, "none")]
                             /\ pc' = pc
                        ELSE /\ loc' = [loc EXCEPT !.job = "STARTING", !.polls = 0,
                                                   !.jobs = Append(@, "STARTING")]
                             /\ pc' = "ingest_poll"

\* the polling loop of connector idx (lines 1735-1743)
IngestPoll ==
    /\ pc = "ingest_poll"
    /\ UNCHANGED <<cfg, aws, self, ops, err, ret, hist>>
    /\ IF ~ polling_continues(loc.job)
       THEN \* the loop condition fails: print the job, sleep, next connector
            /\ loc' = [loc EXCEPT !.idx = @ + 1, !.results = Append(@, loc.job)]
            /\ pc' = "ingest_start"
            /\ UNCHANGED <<trace, faults>>
       ELSE /\ trace' = Append(trace, Call("bedrock.get_ingestion_job",
                                           ToString(self.data_source[loc.idx])))
            /\ \/ /\ loc.polls < MaxPolls
                  /\ loc' = [loc EXCEPT !.job = "IN_PROGRESS", !.polls = @ + 1,
                                        !.jobs[loc.idx] = "IN_PROGRESS"]
                  /\ pc' = pc
                  /\ UNCHANGED faults
               \/ /\ \E st \in TerminalStatuses :
                       loc' = [loc EXCEPT !.job = st, !.jobs[loc.idx] = st]
                  /\ pc' = pc
                  /\ UNCHANGED faults
               \/ \* the request fails: the except of the iteration takes over,
                  \* and the job goes on at the provider
                  /\ Inject(1)
                  /\ loc' = [loc EXCEPT !.idx = next_after_exception(@),
                                              !.job = "exception",
                                              !.results = Append(@, "exception")]
                  /\ pc' = "ingest_start"

(* ================================ delete_kb ============================ *)
DeleteFlags ==
    [ delete_s3_bucket              : BOOLEAN,
      delete_iam_roles_and_policies : BOOLEAN,
      delete_lambda_function        : BOOLEAN ]

\* lines 1785-1799: every connector of self.data_source gets a delete call;
\* not-found and any other error are caught per connector.
\* f is the position of the connector whose call the provider fails (0: none)
RECURSIVE delete_data_sources_first_error_ends(_, _, _, _, _)
delete_data_sources_first_error_ends(dss, i, f, a, tr) ==
    \* a variant whose loop is left at the first failed delete
    IF i > Len(dss) THEN [aws |-> a, trace |-> tr]
    ELSE LET tr2 == Append(tr, Call("bedrock.delete_data_source", ToString(dss[i])))
         IN  IF i = f
             THEN [aws |-> a, trace |-> tr2]
             ELSE delete_data_sources_first_error_ends(dss, i + 1, f,
                      [a EXCEPT !.data_sources =
                                   {d \in @ : d.dataSourceId # dss[i]}],
                      tr2)

RECURSIVE delete_data_sources(_, _, _, _, _)
delete_data_sources(dss, i, f, a, tr) ==
    IF i > Len(dss) THEN [aws |-> a, trace |-> tr]
    ELSE LET tr2 == Append(tr, Call("bedrock.delete_data_source", ToString(dss[i])))
         IN  IF i = f
             THEN delete_data_sources(dss, i + 1, f, a, tr2)
             ELSE delete_data_sources(dss, i + 1, f,
                      [a EXCEPT !.data_sources =
                                   {d \in @ : d.dataSourceId # dss[i]}],
                      tr2)

\* lines 1801-1810: the provider refuses to delete an entity that is missing
\* or still has connectors; both answers are caught
delete_knowledge_base(kb, a, tr) ==
    [ aws   |-> IF /\ kb \in a.kbs
                   /\ ~ \E d \in a.data_sources : d.knowledgeBaseId = kb
                THEN [a EXCEPT !.kbs = @ \ {kb}]
                ELSE a,
      trace |-> Append(tr, Call("bedrock.delete_knowledge_base", ToString(kb))) ]

\* a variant in which the bucket option also switches the IAM cleanup on
deletion_requested_coupled(flags, step) ==
    CASE step = "delete_s3" -> flags.delete_s3_bucket
      [] step = "delete_iam_roles_and_policies" ->
             flags.delete_iam_roles_and_policies \/ flags.delete_s3_bucket
      [] step = "delete_lambda_function" -> flags.delete_lambda_function
      [] OTHER -> TRUE

\* lines 1812-1828: the three conditions of delete_kb; the steps without an
\* option (the knowledge base, the log group, the collection or the graph)
\* are always run
deletion_requested(flags, step) ==
    CASE step = "delete_s3" -> flags.delete_s3_bucket
      [] step = "delete_iam_roles_and_policies" -> flags.delete_iam_roles_and_policies
      [] step = "delete_lambda_function" -> flags.delete_lambda_function
      [] OTHER -> TRUE

\* the same teardown with the IAM cleanup moved before the buckets
delete_kb_identity_first(c, step) ==
    CASE step = "start" -> "delete_kb_entity"
      [] step = "delete_kb_entity" -> "delete_iam_roles_and_policies"
      [] step = "delete_iam_roles_and_policies" -> "delete_s3"
      [] step = "delete_s3" -> "delete_cloudwatch_log_group"
      [] step = "delete_cloudwatch_log_group" -> "delete_lambda_function"
      [] OTHER -> "delete_index"

\* lines 1763-1867: the step that follows each step of delete_kb: the
\* connectors and the entity, the buckets, the log group, the roles and
\* policies, the function, and last the collection or the graph
delete_kb(c, step) ==
    CASE step = "start" -> "delete_kb_entity"
      [] step = "delete_kb_entity" -> "delete_s3"
      [] step = "delete_s3" -> "delete_cloudwatch_log_group"
      [] step = "delete_cloudwatch_log_group" -> "delete_iam_roles_and_policies"
      [] step = "delete_iam_roles_and_policies" -> "delete_lambda_function"
      [] OTHER -> "delete_index"

\* The arguments of delete_kb are drawn where delete_kb reads them (an option
\* has no effect on the run before that line): loc.flags holds the options
\* read so far, the others still at FALSE
ReadOption(name) ==
    \E flags \in DeleteFlags :
        /\ \A o \in DOMAIN flags \ {name} : flags[o] = loc.flags[o]
        /\ loc' = [loc EXCEPT !.flags = flags]

DeleteKb ==
    /\ cfg.kind = "unstructured"
    /\ self.exists
    /\ Begin
    /\ faults' = faults
    /\ loc' = [NoLocals EXCEPT !.before = aws, !.faults0 = faults]
    /\ trace' = <<>>
    /\ pc' = delete_kb(cfg, "start")
    /\ UNCHANGED <<cfg, aws, self>> /\ Running

DeleteKbEntity ==
    /\ pc = "delete_kb_entity"
    /\ \E f \in 0..Len(self.data_source) :
         /\ Inject(f)
         /\ LET d == delete_data_sources(self.data_source, 1, f, aws, trace)
                k == delete_knowledge_base(self.knowledge_base, d.aws, d.trace)
            IN  /\ aws' = k.aws
                /\ trace' = k.trace
    /\ pc' = delete_kb(cfg, "delete_kb_entity")
    /\ UNCHANGED <<cfg, self, loc, err, ret, ops, hist>>

\* delete_s3, lines 1907-1935, run when delete_s3_bucket is set
RECURSIVE delete_s3(_, _, _)
delete_s3(bs, a, tr) ==
    IF bs = <<>> THEN [aws |-> a, trace |-> tr]
    ELSE LET b   == Head(bs)
             tr2 == Append(tr, Call("s3.list_buckets", b))
         IN  IF b \in a.buckets
             THEN delete_s3(Tail(bs), [a EXCEPT !.buckets = @ \ {b}],
                            tr2 \o << Call("s3.delete_objects", b),
                                      Call("s3.delete_bucket", b) >>)
             ELSE delete_s3(Tail(bs), a, tr2)

DeleteS3 ==
    /\ pc = "delete_s3"
    /\ ReadOption("delete_s3_bucket")
    /\ IF deletion_requested(loc'.flags, "delete_s3")
       THEN LET r == delete_s3(buckets_to_check(cfg), aws, trace)
            IN  aws' = r.aws /\ trace' = r.trace
       ELSE UNCHANGED <<aws, trace>>
    /\ pc' = delete_kb(cfg, "delete_s3")
    /\ UNCHANGED <<cfg, self, err, ret, ops, faults, hist>>

\* delete_cloudwatch_log_group, lines 1937-1953: always run, nothing escapes
DeleteCloudwatchLogGroup ==
    /\ pc = "delete_cloudwatch_log_group"
    /\ aws' = [aws EXCEPT !.log_group = FALSE]
    /\ trace' = Append(trace, Call("logs.delete_log_group", "lg"))
    /\ pc' = delete_kb(cfg, "delete_cloudwatch_log_group")
    /\ UNCHANGED <<cfg, self, loc, err, ret, ops, faults, hist>>

(* --------------------- delete_iam_roles_and_policies ------------------- *)
\* a policy of the provider, under the service-role path (lines 672-676
\* attach it to the function's role)
AWSLambdaBasicExecutionRole == "service-role/AWSLambdaBasicExecutionRole"

\* line 1891: str(policy_arn.split("/")[1]) == "service-role"
is_service_role_policy(p) == p = AWSLambdaBasicExecutionRole

PolicyOrder == <<"fm", "cw", "s3", "sm", "lambda", "bda", "neptune", "oss", "rs",
                 AWSLambdaBasicExecutionRole>>

\* The role may carry a policy of the provider by the time of the teardown
\* (attached by the account's administrator since the provisioning); for the
\* unstructured variant this is drawn only when no connector is configured
ManagedAttachments(c, a) ==
    IF /\ kb_execution_role_name \in a.iam_roles
       /\ c.kind = "structured" \/ c.data_sources = <<>>
    THEN BOOLEAN ELSE {FALSE}

with_managed_policy(m, a) ==
    IF m THEN [a EXCEPT !.attached =
                            @ \cup {<<kb_execution_role_name, AWSLambdaBasicExecutionRole>>}]
    ELSE a

\* list_attached_role_policies
attached_policies(role, a) ==
    SelectSeq(PolicyOrder, LAMBDA p : <<role, p>> \in a.attached)

\* the provider deletes a policy only when it is attached nowhere and holds
\* no version besides the default one; its own policies it never deletes
policy_deletable(p, a) ==
    /\ p \in PolicyNames
    /\ a.policy_versions[p] = 1
    /\ ~ \E r \in a.iam_roles : <<r, p>> \in a.attached

\* what delete_policy raises for a policy the provider does not delete
delete_policy_error(p) ==
    IF p \in PolicyNames THEN "DeleteConflictException" ELSE "AccessDeniedException"

\* lines 1884-1897: detach, then delete unless it is a service-role policy;
\* no call is guarded.  f is the position of the policy whose detach call the
\* provider fails (0: none)
RECURSIVE detach_and_delete_policies(_, _, _, _, _, _)
detach_and_delete_policies(role, ps, i, f, a, tr) ==
    IF i > Len(ps) THEN [aws |-> a, trace |-> tr, err |-> "ok"]
    ELSE LET p   == ps[i]
             tr2 == Append(tr, Call("iam.detach_role_policy", p))
             a2  == [a EXCEPT !.attached = @ \ {<<role, p>>}]
             tr3 == Append(tr2, Call("iam.delete_policy", p))
         IN  IF i = f
             THEN [aws |-> a, trace |-> tr2, err |-> "ClientError"]
             ELSE IF is_service_role_policy(p)
             THEN detach_and_delete_policies(role, ps, i + 1, f, a2, tr2)
             ELSE IF ~ policy_deletable(p, a2)
             THEN [aws |-> a2, trace |-> tr3, err |-> delete_policy_error(p)]
             ELSE detach_and_delete_policies(role, ps, i + 1, f,
                      [with_versions(p, <<>>, a2)
                          EXCEPT !.granted = {g \in @ : g[1] # p}], tr3)

\* a variant that asks for the role's deletion before it detaches anything
RECURSIVE delete_iam_roles_and_policies_role_first(_, _, _, _)
delete_iam_roles_and_policies_role_first(roles, f, a, tr) ==
    IF roles = <<>> THEN [aws |-> a, trace |-> tr, err |-> "ok"]
    ELSE LET role == Head(roles)
             tr2  == Append(tr, Call("iam.get_role", role))
             tr3  == Append(tr2, Call("iam.delete_role", role))
         IN  IF role \notin a.iam_roles
             THEN delete_iam_roles_and_policies_role_first(Tail(roles), f, a, tr2)
             ELSE IF attached_policies(role, a) # <<>>
             THEN [aws |-> a, trace |-> tr3, err |-> "DeleteConflictException"]
             ELSE delete_iam_roles_and_policies_role_first(Tail(roles), f,
                      [a EXCEPT !.iam_roles = @ \ {role}], tr3)

\* lines 1869-1901, the loop over self.roles
RECURSIVE delete_iam_roles_and_policies(_, _, _, _)
delete_iam_roles_and_policies(roles, f, a, tr) ==
    IF roles = <<>> THEN [aws |-> a, trace |-> tr, err |-> "ok"]
    ELSE LET role == Head(roles)
             tr2  == Append(tr, Call("iam.get_role", role))
         IN  IF role \notin a.iam_roles
             THEN \* NoSuchEntityException: continue
                  delete_iam_roles_and_policies(Tail(roles), f, a, tr2)
             ELSE LET ps == attached_policies(role, a)
                      r  == detach_and_delete_policies(role, ps, 1, f, a,
                               Append(tr2, Call("iam.list_attached_role_policies", role)))
                  IN  IF r.err # "ok" THEN r
                      ELSE delete_iam_roles_and_policies(Tail(roles), f,
                               [r.aws EXCEPT !.iam_roles = @ \ {role}],
                               Append(r.trace, Call("iam.delete_role", role)))

\* delete_kb raises e: the orchestrator object stays as it is
TeardownRaises(e) ==
    /\ self' = self
    /\ Finish("delete_kb", e, "none")

DeleteIamRolesAndPolicies ==
    /\ pc = "delete_iam_roles_and_policies"
    /\ ReadOption("delete_iam_roles_and_policies")
    /\ UNCHANGED <<cfg, ops>>
    /\ IF ~ deletion_requested(loc'.flags, "delete_iam_roles_and_policies")
       THEN /\ pc' = delete_kb(cfg, "delete_iam_roles_and_policies")
            /\ UNCHANGED <<aws, trace, faults, self, err, ret, hist>>
       ELSE \E m \in ManagedAttachments(cfg, aws) :
            \E f \in 0..Len(attached_policies(kb_execution_role_name, aws)) :
              /\ Inject(f)
              /\ LET r == delete_iam_roles_and_policies(self.roles, f,
                              with_managed_policy(m, aws), trace)
                 IN  /\ aws' = r.aws
                     /\ trace' = r.trace
                     /\ IF r.err # "ok"
                        THEN TeardownRaises(r.err)
                        ELSE /\ pc' = delete_kb(cfg, "delete_iam_roles_and_policies")
                             /\ UNCHANGED <<self, err, ret, hist>>

\* lines 1823-1828 and delete_lambda_function: nothing escapes
DeleteLambdaFunction ==
    /\ pc = "delete_lambda_function"
    /\ ReadOption("delete_lambda_function")
    /\ trace' = IF deletion_requested(loc'.flags, "delete_lambda_function")
                THEN Append(trace, Call("lambda.delete_function", "lambda"))
                ELSE trace
    /\ pc' = delete_kb(cfg, "delete_lambda_function")
    /\ UNCHANGED <<cfg, aws, self, err, ret, ops, faults, hist>>

(* ------------------- the index step of delete_kb ----------------------- *)
\* lines 1831-1847: four calls under one try; the first that fails ends the step
delete_collection_and_policies(cid, a, tr) ==
    LET tr1 == Append(tr, Call("aoss.delete_collection", ToString(cid)))
    IN  IF ~ \E c \in a.collections : c.id = cid
        THEN [aws |-> a, trace |-> tr1]
        ELSE LET a1  == [a EXCEPT !.collections = {c \in @ : c.id # cid},
                                  !.indices = @ \ {cid}]
                 tr2 == Append(tr1, Call("aoss.delete_access_policy", "data"))
             IN  IF "data" \notin a1.aoss_policies
                 THEN [aws |-> a1, trace |-> tr2]
                 ELSE LET a2  == [a1 EXCEPT !.aoss_policies = @ \ {"data"}]
                          tr3 == Append(tr2, Call("aoss.delete_security_policy", "network"))
                      IN  IF "network" \notin a2.aoss_policies
                          THEN [aws |-> a2, trace |-> tr3]
                          ELSE [ aws |-> [a2 EXCEPT !.aoss_policies =
                                                        @ \ {"network", "encryption"}],
                                 trace |-> Append(tr3,
                                     Call("aoss.delete_security_policy", "encryption")) ]

\* a teardown that asks for the deletion whatever update_graph answered
delete_follows_any_update(updated) == TRUE

\* lines 1849-1862: delete_graph is the statement after update_graph in one
\* try block: it is reached when update_graph has not raised
delete_follows_update(updated) == updated

\* the provider deletes a graph whose deletion protection is off
delete_graph_succeeds(gid, failed, a) ==
    ~ failed /\ \E g \in a.graphs : g.id = gid /\ ~ g.deletionProtection

\* lines 1848-1867: deletion protection is switched off, then the graph is
\* deleted; both under one try, whose handler prints the error.
\* f is the place of the call the provider fails (0: none); caught holds
\* the place in the trace of the call that raised
delete_graph(gid, f, a, tr) ==
    LET tr1     == Append(tr, Call("neptune.update_graph", ToString(gid)))
        updated == f # 1 /\ \E g \in a.graphs : g.id = gid
        a1      == IF updated
                   THEN [a EXCEPT !.graphs =
                            {IF g.id = gid THEN [g EXCEPT !.deletionProtection = FALSE]
                                           ELSE g : g \in @}]
                   ELSE a
        tr2     == Append(tr1, Call("neptune.delete_graph", ToString(gid)))
    IN  IF ~ delete_follows_update(updated)
        THEN [aws |-> a1, trace |-> tr1, caught |-> {Len(tr1)}]
        ELSE IF delete_graph_succeeds(gid, f = 2, a1)
        THEN [ aws    |-> [a1 EXCEPT !.graphs = {g \in @ : g.id # gid}],
               trace  |-> tr2,
               caught |-> IF updated THEN {} ELSE {Len(tr1)} ]
        ELSE [ aws    |-> a1,
               trace  |-> tr2,
               caught |-> (IF updated THEN {} ELSE {Len(tr1)}) \cup {Len(tr2)} ]

DeleteIndex ==
    /\ pc = "delete_index"
    /\ IF cfg.vector_store = "OPENSEARCH_SERVERLESS"
       THEN /\ LET r == delete_collection_and_policies(self.collection_id, aws, trace)
               IN  /\ aws' = r.aws
                   /\ trace' = r.trace
            /\ UNCHANGED <<loc, faults>>
       ELSE \E f \in Faults("Index deletion", 2) :
            /\ Inject(f)
            /\ LET r == delete_graph(self.graph_id, f, aws, trace)
               IN  /\ aws' = r.aws
                   /\ trace' = r.trace
                   /\ loc' = [loc EXCEPT !.caught = @ \cup r.caught]
    /\ self' = self
    /\ UNCHANGED <<cfg, ops>>
    /\ Finish("delete_kb", "ok", "None")

(* ================= BedrockStructuredKnowledgeBase ======================= *)
\* __init__, lines 66-96
StructuredConstruct ==
    /\ cfg.kind = "structured"
    /\ Begin
    /\ faults' = faults
    /\ trace' = << Call("sts.get_caller_identity", "Account"),
                   Call("sts.get_caller_identity", "Arn") >>
    /\ loc' = [NoLocals EXCEPT !.before = aws, !.faults0 = faults,
                               !.new = [NoInstance EXCEPT
                                           !.exists = TRUE,
                                           !.roles = <<kb_execution_role_name>>]]
    /\ UNCHANGED <<cfg, aws>>
    /\ IF structured_validate_models(cfg) # "ok"
       THEN /\ self' = self
            /\ Finish("construct", structured_validate_models(cfg), "none")
       ELSE /\ pc' = "s_create_cloudwatch_log_group"
            /\ self' = self /\ Running

\* create_cloudwatch_log_group, lines 102-135 (same text as the other class)
StructuredCreateCloudwatchLogGroup ==
    /\ pc = "s_create_cloudwatch_log_group"
    /\ LET r == create_cloudwatch_log_group(aws, trace)
       IN  /\ aws' = r.aws
           /\ trace' = r.trace
    /\ pc' = "s_create_bedrock_execution_role"
    /\ UNCHANGED <<cfg, self, loc, err, ret, ops, faults, hist>>

\* create_bedrock_execution_role_structured_rag, lines 154-356: create_role,
\* the create_policy of the Redshift policy and both attach calls are
\* unguarded; only the CloudWatch policy is adopted when it exists.
\* f is the place of the call the provider fails (0: none) among create_role,
\* create_policy and attach_role_policy of the Redshift policy, create_policy
\* and attach_role_policy of the CloudWatch policy
create_bedrock_execution_role_structured_rag(role, f, a, tr) ==
    LET tr1 == Append(tr, Call("iam.create_role", role))
        a1  == [a EXCEPT !.iam_roles = @ \cup {role}]
        tr2 == Append(tr1, Call("iam.create_policy", "rs"))
        a2  == with_default_version("rs", {"*"},
                                    with_versions("rs", first_version, a1))
        tr3 == Append(tr2, Call("iam.attach_role_policy", "rs"))
        a3  == [a2 EXCEPT !.attached = @ \cup {<<role, "rs">>}]
        tr4 == Append(tr3, Call("iam.create_policy", "cw"))
        a4  == IF a3.policy_versions["cw"] > 0 THEN a3
               ELSE with_default_version("cw", {"*"},
                                         with_versions("cw", first_version, a3))
        tr5 == Append(tr4, Call("iam.attach_role_policy", "cw"))
        a5  == [a4 EXCEPT !.attached = @ \cup {<<role, "cw">>}]
    IN  IF f = 1 THEN [aws |-> a, trace |-> tr1, err |-> "ClientError"]
        ELSE IF role \in a.iam_roles
        THEN [aws |-> a, trace |-> tr1, err |-> "EntityAlreadyExistsException"]
        ELSE IF f = 2 THEN [aws |-> a1, trace |-> tr2, err |-> "ClientError"]
        ELSE IF a1.policy_versions["rs"] > 0
        THEN [aws |-> a1, trace |-> tr2, err |-> "EntityAlreadyExistsException"]
        ELSE IF f = 3 THEN [aws |-> a2, trace |-> tr3, err |-> "ClientError"]
        ELSE IF f = 4 THEN [aws |-> a3, trace |-> tr4, err |-> "ClientError"]
        ELSE IF f = 5 THEN [aws |-> a4, trace |-> tr5, err |-> "ClientError"]
        ELSE [aws |-> a5, trace |-> tr5, err |-> "ok"]

StructuredCreateBedrockExecutionRole ==
    /\ pc = "s_create_bedrock_execution_role"
    /\ \E f \in Faults("Identity", 5) :
         /\ Inject(f)
         /\ LET r == create_bedrock_execution_role_structured_rag(
                         kb_execution_role_name, f, aws, trace)
            IN  /\ aws' = r.aws
                /\ trace' = r.trace
                /\ UNCHANGED <<cfg, ops>>
                /\ IF r.err # "ok"
                   THEN /\ loc' = [loc EXCEPT !.failed = @ \cup Failed(r)]
                        /\ ConstructRaises(r.err)
                   ELSE /\ loc' = [loc EXCEPT !.new.role = kb_execution_role_name]
                        /\ pc' = "s_create_knowledge_base"
                        /\ UNCHANGED <<self, err, ret, hist>>

\* one attempt of create_structured_knowledge_base, lines 359-403: the
\* knowledge base and its single connector are created or adopted.
\* f = 1: the provider fails the create_data_source call
create_structured_knowledge_base(f, first, a, tr) ==
    LET k   == create_or_get_kb(f, first, a, tr)
        tr1 == Append(k.trace, Call("bedrock.create_data_source", "ds"))
        old == {d \in k.aws.data_sources : d.knowledgeBaseId = k.kb}
    IN  IF k.err # "ok"
        THEN [aws |-> k.aws, trace |-> k.trace, err |-> k.err, kb |-> 0, ds |-> 0]
        ELSE IF f = 1
        THEN [aws |-> k.aws, trace |-> tr1, err |-> "ClientError",
              kb |-> k.kb, ds |-> 0]
        ELSE IF old # {}
        THEN [ aws |-> k.aws,
               trace |-> tr1 \o << Call("bedrock.list_data_sources", "kb"),
                                   Call("bedrock.get_data_source", "kb") >>,
               err |-> "ok", kb |-> k.kb,
               ds |-> (CHOOSE d \in old : TRUE).dataSourceId ]
        ELSE [ aws |-> [k.aws EXCEPT
                          !.data_sources = @ \cup {[dataSourceId |-> k.aws.next_id,
                                                   knowledgeBaseId |-> k.kb,
                                                   name |-> "ds"]},
                          !.next_id = @ + 1],
               trace |-> tr1, err |-> "ok", kb |-> k.kb, ds |-> k.aws.next_id ]

StructuredCreateKnowledgeBase ==
    /\ pc = "s_create_knowledge_base"
    /\ \E f \in {-1, 0, 1} : \E first \in ListingOrders(f, aws) :
         /\ Inject(f)
         /\ LET r == create_structured_knowledge_base(f, first, aws, trace)
            IN  /\ aws' = r.aws
                /\ trace' = r.trace
                /\ UNCHANGED <<cfg, ops>>
                /\ loc' = [loc EXCEPT !.attempt = @ + 1, !.failed = @ \cup Failed(r)]
                /\ IF r.err = "ok"
                   THEN ConstructReturns([loc.new EXCEPT
                                            !.knowledge_base = r.kb,
                                            !.data_source = <<r.ds>>])
                   ELSE IF should_retry(loc.attempt + 1)
                   THEN /\ pc' = pc
                        /\ UNCHANGED <<self, err, ret, hist>>
                   ELSE ConstructRaises(r.err)

(* ----------------------- structured delete_kb -------------------------- *)
\* list_data_sources answers with the connectors of the knowledge base
listed_data_sources(kb, a) ==
    LET ids == {d.dataSourceId : d \in {x \in a.data_sources : x.knowledgeBaseId = kb}}
    IN  IF ids = {} THEN <<>> ELSE <<CHOOSE i \in ids : TRUE>>

StructuredDeleteKb ==
    /\ cfg.kind = "structured"
    /\ self.exists
    /\ Begin
    /\ faults' = faults
    /\ \E iam \in BOOLEAN :
         loc' = [NoLocals EXCEPT !.before = aws, !.faults0 = faults,
                                 !.flags.delete_iam_roles_and_policies = iam]
    /\ trace' = <<>>
    /\ pc' = "s_delete_kb_entity"
    /\ UNCHANGED <<cfg, aws, self>> /\ Running

\* lines 441-469: list_data_sources is outside every try; the deletes of the
\* connectors and of the knowledge base catch everything
StructuredDeleteKbEntity ==
    /\ pc = "s_delete_kb_entity"
    /\ UNCHANGED <<cfg, loc, ops>>
    /\ LET kb  == self.knowledge_base
           tr1 == Append(trace, Call("bedrock.list_data_sources", ToString(kb)))
       IN  IF kb \notin aws.kbs
           THEN /\ aws' = aws
                /\ trace' = tr1
                /\ UNCHANGED faults
                /\ TeardownRaises("ResourceNotFoundException")
           ELSE \E f \in 0..Len(listed_data_sources(kb, aws)) :
                  /\ Inject(f)
                  /\ LET d == delete_data_sources(listed_data_sources(kb, aws),
                                                  1, f, aws, tr1)
                         k == delete_knowledge_base(kb, d.aws, d.trace)
                     IN  /\ aws' = k.aws
                         /\ trace' = k.trace
                  /\ pc' = "s_delete_iam_role_and_policies"
                  /\ UNCHANGED <<self, err, ret, hist>>

\* delete_iam_role_and_policies, lines 475-502: list_attached_role_policies
\* is outside every try; detach and delete_policy catch NoSuchEntity only;
\* delete_role catches NoSuchEntity only
RECURSIVE structured_detach_and_delete(_, _, _, _, _, _)
structured_detach_and_delete(role, ps, i, f, a, tr) ==
    IF i > Len(ps) THEN [aws |-> a, trace |-> tr, err |-> "ok"]
    ELSE LET p   == ps[i]
             tr2 == Append(tr, Call("iam.detach_role_policy", p))
             a2  == [a EXCEPT !.attached = @ \ {<<role, p>>}]
             tr3 == Append(tr2, Call("iam.delete_policy", p))
         IN  IF i = f
             THEN [aws |-> a, trace |-> tr2, err |-> "ClientError"]
             ELSE IF ~ policy_deletable(p, a2)
             THEN [aws |-> a2, trace |-> tr3, err |-> delete_policy_error(p)]
             ELSE structured_detach_and_delete(role, ps, i + 1, f,
                      [with_versions(p, <<>>, a2)
                          EXCEPT !.granted = {g \in @ : g[1] # p}], tr3)

delete_iam_role_and_policies(role, f, a, tr) ==
    LET tr1 == Append(tr, Call("iam.list_attached_role_policies", role))
    IN  IF role \notin a.iam_roles
        THEN [aws |-> a, trace |-> tr1, err |-> "NoSuchEntityException"]
        ELSE LET r == structured_detach_and_delete(role, attached_policies(role, a),
                                                   1, f, a, tr1)
             IN  IF r.err # "ok" THEN r
                 ELSE [ aws   |-> [r.aws EXCEPT !.iam_roles = @ \ {role}],
                        trace |-> Append(r.trace, Call("iam.delete_role", role)),
                        err   |-> "ok" ]

StructuredDeleteIamRoleAndPolicies ==
    /\ pc = "s_delete_iam_role_and_policies"
    /\ UNCHANGED <<cfg, loc, ops>>
    /\ self' = self
    /\ IF ~ deletion_requested(loc.flags, "delete_iam_roles_and_policies")
       THEN /\ UNCHANGED <<aws, trace, faults>>
            /\ Finish("delete_kb", "ok", "None")
       ELSE \E m \in ManagedAttachments(cfg, aws) :
            \E f \in 0..Len(attached_policies(kb_execution_role_name, aws)) :
              /\ Inject(f)
              /\ LET r == delete_iam_role_and_policies(kb_execution_role_name, f,
                              with_managed_policy(m, aws), trace)
                 IN  /\ aws' = r.aws
                     /\ trace' = r.trace
                     /\ Finish("delete_kb", r.err,
                               IF r.err = "ok" THEN "None" ELSE "none")

(* ============================ specification ============================ *)
Next ==
    \/ Construct
    \/ CreateS3Bucket
    \/ CreateCloudwatchLogGroup
    \/ CreateBedrockExecutionRoleMultiDs
    \/ CreatePoliciesInOss
    \/ CreateOss
    \/ CreateOssWait
    \/ CreateVectorIndex
    \/ CreateNeptune
    \/ CreateNeptuneWait
    \/ CreateKnowledgeBase
    \/ StartIngestionJob
    \/ IngestStart
    \/ IngestPoll
    \/ DeleteKb
    \/ DeleteKbEntity
    \/ DeleteS3
    \/ DeleteCloudwatchLogGroup
    \/ DeleteIamRolesAndPolicies
    \/ DeleteLambdaFunction
    \/ DeleteIndex
    \/ StructuredConstruct
    \/ StructuredCreateCloudwatchLogGroup
    \/ StructuredCreateBedrockExecutionRole
    \/ StructuredCreateKnowledgeBase
    \/ StructuredDeleteKb
    \/ StructuredDeleteKbEntity
    \/ StructuredDeleteIamRoleAndPolicies

Spec == Init /\ [][Next]_vars

TypeOK ==
    /\ cfg \in Configs
    /\ pc \in STRING
    /\ ops \in 0..MaxOps
    /\ faults \in 0..MaxFaults

(* ============ _get_embedding_dimensions applied on its own ============= *)
\* The constructor never lets a model outside the allow-list reach the
\* dimension lookup, so the lookup is also exercised by itself: the model and
\* the multimodal switch are drawn freely, for both callers of the method
\* (create_vector_index and create_neptune).
DimensionEmbeddingInputs ==
    valid_embedding_models \cup {"unknown.embed-v1", "amazon.nova-pro-v1:0"}

DimensionConfigs ==
    [ kind              : {"unstructured"},
      embedding_model   : DimensionEmbeddingInputs,
      generation_model  : {default_generation_model},
      reranking_model   : {default_reranking_model},
      multi_modal       : BOOLEAN,
      vector_store      : {"OPENSEARCH_SERVERLESS", "NEPTUNE_ANALYTICS"},
      chunking_strategy : {"FIXED_SIZE"},
      data_sources      : {<<>>} ]

InitDimensions ==
    /\ cfg \in DimensionConfigs
    /\ aws = NoResources
    /\ self = NoInstance
    /\ pc = "idle"
    /\ loc = NoLocals
    /\ trace = <<>>
    /\ err = "ok"
    /\ ret = 0
    /\ ops = 0
    /\ faults = 0
    /\ hist = <<>>

\* one call of the method: ret is the dimension it returns, err the exception
GetEmbeddingDimensions ==
    /\ Begin
    /\ LET d == _get_embedding_dimensions(cfg.embedding_model, cfg.multi_modal)
       IN  /\ err' = d.err
           /\ ret' = d.value
           /\ hist' = << [op |-> "_get_embedding_dimensions", err |-> d.err] >>
    /\ UNCHANGED <<cfg, aws, self, pc, loc, trace, faults>>

NextDimensions == GetEmbeddingDimensions

SpecDimensions == InitDimensions /\ [][NextDimensions]_vars

(* ========= provisioning on its own, with an unreliable provider ======== *)
\* Constructions only, one after the other, of orchestrators that share the
\* deterministic names; the provider may fail the calls of one step.
ProvisioningSteps == {"Storage", "Identity", "Index", "Log delivery"}

MediaDescriptor == [type |-> "S3", bucket_name |-> "media-bucket"]

ProvisioningDescriptors == <<S3Descriptor, MediaDescriptor, WebDescriptor>>

\* the lists of at most MaxDataSources of these descriptors, none repeated
ProvisioningDataSources ==
    LET picks == {q \in SeqsUpTo(DOMAIN ProvisioningDescriptors, MaxDataSources) :
                     \A i \in 1..(Len(q) - 1) : q[i] < q[i + 1]}
    IN  {[i \in DOMAIN q |-> ProvisioningDescriptors[q[i]]] : q \in picks}

ProvisioningConfigs ==
    [ kind              : {"unstructured"},
      embedding_model   : {"cohere.embed-v4:0"},
      generation_model  : {default_generation_model},
      reranking_model   : {default_reranking_model},
      multi_modal       : {FALSE},
      vector_store      : {"OPENSEARCH_SERVERLESS", "NEPTUNE_ANALYTICS"},
      chunking_strategy : {"FIXED_SIZE"},
      data_sources      : ProvisioningDataSources ]
    \cup { c \in StructuredConfigs : c.generation_model = default_generation_model }

InitProvisioning ==
    /\ cfg \in ProvisioningConfigs
    \* a requested bucket name may belong to another account, which may let
    \* the caller access the bucket
    /\ \E fb \in SUBSET Range(bucket_names(cfg)) : \E sb \in SUBSET fb :
      \E step \in ProvisioningSteps :
           aws = [NoResources EXCEPT !.foreign_buckets = fb,
                                     !.shared_buckets = sb,
                                     !.unreliable = {step}]
    /\ self = NoInstance
    /\ pc = "idle"
    /\ loc = NoLocals
    /\ trace = <<>>
    /\ err = "ok"
    /\ ret = "none"
    /\ ops = 0
    /\ faults = 0
    /\ hist = <<>>

NextProvisioning ==
    \/ Construct
    \/ ConstructNarrower
    \/ CreateS3Bucket
    \/ CreateCloudwatchLogGroup
    \/ CreateBedrockExecutionRoleMultiDs
    \/ CreatePoliciesInOss
    \/ CreateOss
    \/ CreateOssWait
    \/ CreateVectorIndex
    \/ CreateNeptune
    \/ CreateNeptuneWait
    \/ CreateKnowledgeBase
    \/ StructuredConstruct
    \/ StructuredCreateCloudwatchLogGroup
    \/ StructuredCreateBedrockExecutionRole
    \/ StructuredCreateKnowledgeBase

SpecProvisioning == InitProvisioning /\ [][NextProvisioning]_vars

(* ============== two orchestrators provisioning at once ================= *)
\* Two processes construct an orchestrator each, with the same configuration
\* and so with the same names.  pc, loc, trace, self, err, ret and hist are
\* those of the process that takes steps; the other process waits in
\* aws.peer until the scheduler switches to it.
ConcurrentConfigs ==
    { c \in ProvisioningConfigs :
          c.kind = "structured" \/ c.data_sources = <<S3Descriptor>> }

\* a process that has not called the constructor yet
NotStarted ==
    [ pc |-> "idle", loc |-> NoLocals, trace |-> <<>>, self |-> NoInstance,
      err |-> "ok", ret |-> "none", hist |-> <<>> ]

InitConcurrent ==
    /\ cfg \in ConcurrentConfigs
    /\ aws = [NoResources EXCEPT !.peer = <<NotStarted>>]
    /\ self = NoInstance
    /\ pc = "idle"
    /\ loc = NoLocals
    /\ trace = <<>>
    /\ err = "ok"
    /\ ret = "none"
    /\ ops = 0
    /\ faults = 0
    /\ hist = <<>>

\* the scheduler takes the processor from one process, between two of its
\* steps, and gives it to the other
Switch ==
    /\ aws.peer # <<>>
    /\ ~ (pc = "idle" /\ aws.peer[1].pc = "idle")
    /\ LET other == aws.peer[1]
       IN  /\ pc' = other.pc
           /\ loc' = other.loc
           /\ trace' = other.trace
           /\ self' = other.self
           /\ err' = other.err
           /\ ret' = other.ret
           /\ hist' = other.hist
    /\ aws' = [aws EXCEPT !.peer = << [ pc |-> pc, loc |-> loc, trace |-> trace,
                                        self |-> self, err |-> err, ret |-> ret,
                                        hist |-> hist ] >>]
    /\ UNCHANGED <<cfg, ops, faults>>

NextConcurrent ==
    \/ Switch
    \/ Construct
    \/ CreateS3Bucket
    \/ CreateCloudwatchLogGroup
    \/ CreateBedrockExecutionRoleMultiDs
    \/ CreatePoliciesInOss
    \/ CreateOss
    \/ CreateOssWait
    \/ CreateVectorIndex
    \/ CreateNeptune
    \/ CreateNeptuneWait
    \/ CreateKnowledgeBase
    \/ StructuredConstruct
    \/ StructuredCreateCloudwatchLogGroup
    \/ StructuredCreateBedrockExecutionRole
    \/ StructuredCreateKnowledgeBase

SpecConcurrent == InitConcurrent /\ [][NextConcurrent]_vars

(* ========= provisioning and teardown, one after the other ============== *)
\* Constructions and teardowns of orchestrators of the unstructured class;
\* the provider may fail the calls that delete the index, or those that
\* give the role access to the collection.
TeardownSteps == {"Index deletion", "Collection access"}

TeardownConfigs ==
    { c \in ProvisioningConfigs :
          c.kind = "unstructured" /\ Len(c.data_sources) <= 1 }

InitTeardown ==
    /\ cfg \in TeardownConfigs
    /\ \E step \in TeardownSteps :
         aws = [NoResources EXCEPT !.unreliable = {step}]
    /\ self = NoInstance
    /\ pc = "idle"
    /\ loc = NoLocals
    /\ trace = <<>>
    /\ err = "ok"
    /\ ret = "none"
    /\ ops = 0
    /\ faults = 0
    /\ hist = <<>>

NextTeardown ==
    \/ Construct
    \/ CreateS3Bucket
    \/ CreateCloudwatchLogGroup
    \/ CreateBedrockExecutionRoleMultiDs
    \/ CreatePoliciesInOss
    \/ CreateOss
    \/ CreateOssWait
    \/ CreateVectorIndex
    \/ CreateNeptune
    \/ CreateNeptuneWait
    \/ CreateKnowledgeBase
    \/ DeleteKb
    \/ DeleteKbEntity
    \/ DeleteS3
    \/ DeleteCloudwatchLogGroup
    \/ DeleteIamRolesAndPolicies
    \/ DeleteLambdaFunction
    \/ DeleteIndex

SpecTeardown == InitTeardown /\ [][NextTeardown]_vars

(* ============ provisioning with descriptors of any kind ================ *)
\* a descriptor of a type the class does not know
FtpDescriptor == [type |-> "FTP", bucket_name |-> "none"]

\* the unstructured configurations whose descriptors are a bucket, a
\* descriptor of the unknown type, or one after the other
DescriptorConfigs ==
    { c \in [ kind              : {"unstructured"},
              embedding_model   : {"cohere.embed-v4:0"},
              generation_model  : {default_generation_model},
              reranking_model   : {default_reranking_model},
              multi_modal       : {FALSE},
              vector_store      : {"OPENSEARCH_SERVERLESS", "NEPTUNE_ANALYTICS"},
              chunking_strategy : {"FIXED_SIZE"},
              data_sources      : SeqsUpTo({S3Descriptor, FtpDescriptor},
                                           MaxDataSources) ] :
        c.data_sources # <<>> }

InitDescriptors ==
    /\ cfg \in DescriptorConfigs
    /\ aws = NoResources
    /\ self = NoInstance
    /\ pc = "idle"
    /\ loc = NoLocals
    /\ trace = <<>>
    /\ err = "ok"
    /\ ret = "none"
    /\ ops = 0
    /\ faults = 0
    /\ hist = <<>>

NextDescriptors ==
    \/ Construct
    \/ CreateS3Bucket
    \/ CreateCloudwatchLogGroup
    \/ CreateBedrockExecutionRoleMultiDs
    \/ CreatePoliciesInOss
    \/ CreateOss
    \/ CreateOssWait
    \/ CreateVectorIndex
    \/ CreateNeptune
    \/ CreateNeptuneWait
    \/ CreateKnowledgeBase

SpecDescriptors == InitDescriptors /\ [][NextDescriptors]_vars

(* ======================= properties of the operations ================== *)
\* the last finished operation is op and nothing runs since
Finished(op) == pc = "idle" /\ hist # <<>> /\ hist[1].op = op

\* positions of the calls of one API in the trace
CallsOf(api) == {i \in DOMAIN trace : trace[i].api = api}

(* C1: Idempotence of provisioning.  When the constructor has run to the end
   without a provider error and is run again with the same configuration,
   the second run succeeds, holds the same execution role, the same index
   (collection or graph) and the same knowledge base, and has created no
   additional resource. *)
C1_SecondRunAddsNothing ==
    ( /\ Finished("construct")
      /\ hist[1].prev.op = "construct"
      /\ hist[1].prev.err = "ok"
      /\ hist[1].prev.faults = 0
      /\ hist[1].faults = 0 )
    => ( /\ hist[1].err = "ok"
         /\ hist[1].ids = hist[1].ids0
         /\ hist[1].created = {} )

(* C2: Partial-failure isolation of connector creation.  When the creation
   of one connector fails during the first construction, the constructor
   does not raise and returns the knowledge base together with the
   connectors of all other descriptors. *)
C2_ConnectorFailureIsolated ==
    ( /\ Finished("construct")
      /\ cfg.kind = "unstructured"
      /\ hist[1].prev.op = "none"
      /\ \A i, j \in DOMAIN cfg.data_sources :
             i # j => cfg.data_sources[i] # cfg.data_sources[j]
      \* the constructor's only failing provider call is create_data_source
      /\ hist[1].faults = 1 )
    => ( /\ hist[1].err = "ok"
         /\ self.exists
         /\ self.knowledge_base \in aws.kbs
         /\ Len(self.data_source) >= Len(cfg.data_sources) - 1
         /\ \A i \in DOMAIN self.data_source :
                \E d \in aws.data_sources : d.dataSourceId = self.data_source[i] )

(* C3: Teardown tolerance.  delete_kb called when the knowledge base it
   refers to is already gone (and no call fails for another reason)
   completes without raising. *)
C3_TeardownToleratesMissing ==
    ( /\ Finished("delete_kb")
      /\ hist[1].faults = 0
      /\ self.knowledge_base \notin loc.before.kbs )
    => hist[1].err = "ok"

(* C4: Teardown order, connectors before entity.  In every teardown the
   delete call of each connector the teardown addresses (the connectors the
   orchestrator holds; in the structured class the connectors the provider
   lists for the knowledge base) is issued before the delete call of the
   knowledge base, and no connector delete follows it, whatever the outcome
   of the connector deletes. *)
TeardownConnectors ==
    IF cfg.kind = "structured"
    THEN {d.dataSourceId : d \in {x \in loc.before.data_sources :
                                     x.knowledgeBaseId = self.knowledge_base}}
    ELSE Range(self.data_source)

C4_ConnectorsBeforeEntity ==
    \A j \in CallsOf("bedrock.delete_knowledge_base") :
        /\ \A i \in CallsOf("bedrock.delete_data_source") : i < j
        /\ \A d \in TeardownConnectors :
               \E i \in 1..(j - 1) :
                   trace[i] = Call("bedrock.delete_data_source", ToString(d))

\* a teardown in which one connector delete failed, the connector is still
\* there, and the knowledge-base delete was issued after both connector calls
C4_Witness ==
    /\ Finished("delete_kb")
    /\ hist[1].faults = 1
    /\ Cardinality(CallsOf("bedrock.delete_data_source")) = 2
    /\ CallsOf("bedrock.delete_knowledge_base") # {}
    /\ \E d \in aws.data_sources : d.knowledgeBaseId = self.knowledge_base

(* C5: Teardown order, policies before role.  Every policy that was
   attached to a role when the teardown began has its detach call issued
   before the delete call of that role: the role delete is never issued
   while a policy is still attached. *)
C5_PoliciesBeforeRole ==
    \A j \in CallsOf("iam.delete_role") :
        \A p \in PolicyNames :
            <<trace[j].arg, p>> \in loc.before.attached
            => \E i \in 1..(j - 1) :
                   trace[i] = Call("iam.detach_role_policy", p)

\* a teardown that detached several policies and then deleted the role
C5_Witness ==
    /\ Finished("delete_kb")
    /\ hist[1].err = "ok"
    /\ CallsOf("iam.delete_role") # {}
    /\ Cardinality(CallsOf("iam.detach_role_policy")) >= 2
    /\ kb_execution_role_name \notin aws.iam_roles

(* C6 as stated: when a model identifier is outside its allow-list the
   constructor fails with no remote call made and no resource created. *)
AllowListViolation(c) ==
    IF c.kind = "structured"
    THEN c.generation_model \notin structured_valid_generation_models
    ELSE \/ c.embedding_model \notin valid_embedding_models
         \/ c.generation_model \notin valid_generation_models
         \/ c.reranking_model \notin valid_reranking_models

MultimodalIncompatible(c) ==
    /\ c.kind = "unstructured"
    /\ c.multi_modal
    /\ c.embedding_model \in valid_embedding_models \ multimodal_compatible_models

C7_MultimodalRejected ==
    MultimodalIncompatible(cfg)
    => ( /\ pc = "idle"
         /\ Resources(aws) = {}
         /\ ~ self.exists
         /\ hist # <<>> => (hist[1].op = "construct" /\ hist[1].err = "ValueError") )

\* the default embedding model with multimodal on, every model identifier in
\* its allow-list: the construction has failed
C7_Witness ==
    /\ Finished("construct")
    /\ cfg.multi_modal
    /\ cfg.embedding_model = default_embedding_model
    /\ ~ AllowListViolation(cfg)
    /\ err = "ValueError"
    /\ Resources(aws) = {}

(* C8: Dimension lookup.  For every embedding model of the allow-list, with
   multimodal on and off, _get_embedding_dimensions returns exactly the
   dimension the table records for it; for a model absent from the table it
   raises ValueError and returns no dimension. *)
C8_DimensionFromTable ==
    (hist # <<>> /\ hist[1].op = "_get_embedding_dimensions")
    => IF cfg.embedding_model \in valid_embedding_models
       THEN err = "ok" /\ ret = embedding_context_dimensions[cfg.embedding_model]
       ELSE err = "ValueError" /\ ret = 0

\* the lookup answered for a Cohere v4 model with multimodal on, the case the
\* method treats apart
C8_Witness ==
    /\ hist # <<>>
    /\ hist[1].op = "_get_embedding_dimensions"
    /\ cfg.multi_modal
    /\ cfg.embedding_model \in cohere_v4_models
    /\ err = "ok"
    /\ ret = 1024

(* C9 as stated: for every connector whose ingestion job started, polling
   ended on a terminal status and that status is returned to the caller. *)
Polled(i) ==
    \E j \in CallsOf("bedrock.get_ingestion_job") :
        trace[j].arg = ToString(self.data_source[i])

C10_IngestionFailureIsolated ==
    /\ (hist # <<>> /\ hist[1].op = "ingest") => hist[1].err = "ok"
    /\ Finished("ingest")
       => \A i \in 1..connectors_to_ingest :
              \E j \in CallsOf("bedrock.start_ingestion_job") :
                  trace[j].arg = ToString(self.data_source[i])

\* the request of the first connector failed and the job of the second one
\* ran to a terminal status
C10_Witness ==
    /\ Finished("ingest")
    /\ hist[1].faults = 1
    /\ Len(loc.results) = 2
    /\ loc.results[1] = "exception"
    /\ loc.results[2] \in TerminalStatuses

(* C11: Identity adoption.  When the execution role with the deterministic
   name already exists as the role step runs, the step fetches the existing
   role and the construction does not fail on the role's existence, for the
   unstructured and the structured orchestrator alike. *)
C11_ExistingRoleAdopted ==
    ( /\ Finished("construct")
      /\ hist[1].faults = 0
      /\ kb_execution_role_name \in loc.before.iam_roles
      /\ CallsOf("iam.create_role") # {} )
    => ( /\ hist[1].err # "EntityAlreadyExistsException"
         /\ \E i \in CallsOf("iam.create_role") :
                \E j \in CallsOf("iam.get_role") : i < j
         /\ kb_execution_role_name \in aws.iam_roles )

(* C12: Knowledge-base adoption.  Whenever the create call of the knowledge
   base meets a naming conflict and the existing entities are listed, the
   entity of the configured name is selected and fetched, and the
   construction does not fail on the lookup, however many entities the
   account holds. *)
C12_ExistingKnowledgeBaseAdopted ==
    /\ \A i \in CallsOf("bedrock.list_knowledge_bases") :
           /\ i < Len(trace)
           /\ trace[i + 1] = Call("bedrock.get_knowledge_base", "kb")
    /\ Finished("construct") => hist[1].err # "ParamValidationError"

(* C13: Connector adoption.  When the creation of a connector meets an
   already-exists conflict and the handler fetches the existing connector,
   the construction succeeds and the orchestrator holds the knowledge base
   with one existing connector per descriptor. *)
C13_ExistingConnectorAdopted ==
    ( /\ Finished("construct")
      /\ hist[1].faults = 0
      /\ CallsOf("bedrock.get_data_source") # {} )
    => ( /\ hist[1].err = "ok"
         /\ self.knowledge_base \in aws.kbs
         /\ Len(self.data_source) = connectors_to_ingest
         /\ \A i \in DOMAIN self.data_source :
                \E d \in aws.data_sources :
                    /\ d.dataSourceId = self.data_source[i]
                    /\ d.knowledgeBaseId = self.knowledge_base )

(* C14: Vector index adoption.  When the vector index already exists as
   create_vector_index runs (and no provider error is injected), the step
   does not fail and the construction goes on to create or adopt the
   knowledge base. *)
C14_ExistingIndexTolerated ==
    ( /\ Finished("construct")
      /\ hist[1].faults = 0
      /\ CallsOf("oss.indices.create") # {}
      /\ loc.before.indices # {} )
    => ( /\ hist[1].err # "RequestError"
         /\ CallsOf("bedrock.create_knowledge_base") # {} )


(* ============================== C15 ==================================== *)
\* the APIs each provisioning step of a construction calls
StorageApis == {"s3.head_bucket", "s3.create_bucket"}
LoggingApis == {"logs.create_log_group", "logs.put_retention_policy"}
IdentityApis ==
    {"iam.create_role", "iam.get_role", "iam.update_assume_role_policy",
     "iam.create_policy", "iam.list_policy_versions", "iam.delete_policy_version",
     "iam.create_policy_version", "iam.attach_role_policy"}
IndexApis ==
    {"aoss.create_security_policy", "aoss.get_security_policy",
     "aoss.create_access_policy", "aoss.get_access_policy",
     "aoss.create_collection", "aoss.batch_get_collection",
     "oss.indices.create", "neptune.create_graph", "neptune.get_graph"}
KnowledgeServiceApis ==
    {"bedrock.create_knowledge_base", "bedrock.list_knowledge_bases",
     "bedrock.get_knowledge_base", "bedrock.create_data_source",
     "bedrock.list_data_sources", "bedrock.get_data_source",
     "logs.create_delivery_source", "logs.describe_delivery_sources",
     "logs.create_delivery_destination", "logs.describe_delivery_destinations",
     "logs.create_delivery"}

\* the provisioning step a provider call of a construction belongs to. The
\* IAM policy for the collection is created and attached inside create_oss
\* (lines 1238-1245), so it is a call of the Index step
StepOfCall(call) ==
    IF call.api \in KnowledgeServiceApis THEN "Knowledge Service"
    ELSE IF call.api \in IdentityApis
    THEN (IF call.arg = "oss" THEN "Index" ELSE "Identity")
    ELSE IF call.api \in IndexApis THEN "Index"
    ELSE IF call.api \in StorageApis THEN "Storage"
    ELSE IF call.api \in LoggingApis THEN "Logging"
    ELSE "none"

\* the calls that belong to a step of the order (a function from the steps
\* to their places) come in that order
CallsOrdered(order, StepOf(_)) ==
    LET q == SelectSeq(trace, LAMBDA call : StepOf(call) \in DOMAIN order)
    IN  \A i \in 1..(Len(q) - 1) :
            order[StepOf(q[i])] <= order[StepOf(q[i + 1])]

\* the order of the steps of _setup_resources, and the order C15 states
ProvisioningOrder ==
    "Storage" :> 1 @@ "Logging" :> 2 @@ "Identity" :> 3 @@ "Index" :> 4
    @@ "Knowledge Service" :> 5
StatedProvisioningOrder ==
    "Identity" :> 1 @@ "Storage" :> 2 @@ "Index" :> 3 @@ "Knowledge Service" :> 4

\* the steps that have issued a call
StepsCalled == {StepOfCall(trace[i]) : i \in DOMAIN trace}

TeardownStepOfCall(call) ==
    CASE call.api \in {"bedrock.list_data_sources", "bedrock.delete_data_source",
                       "bedrock.delete_knowledge_base"} -> "Knowledge Service"
      [] call.api \in {"s3.list_buckets", "s3.delete_objects", "s3.delete_bucket"} -> "Storage"
      [] call.api = "logs.delete_log_group" -> "Logging"
      [] call.api \in {"iam.get_role", "iam.list_attached_role_policies",
                       "iam.detach_role_policy", "iam.delete_policy",
                       "iam.delete_role"} -> "Identity"
      [] call.api = "lambda.delete_function" -> "Function"
      [] call.api \in {"aoss.delete_collection", "aoss.delete_access_policy",
                       "aoss.delete_security_policy", "neptune.update_graph",
                       "neptune.delete_graph"} -> "Index"
      [] OTHER -> "none"

\* the order of the steps of delete_kb, and the order C16 states
TeardownOrder ==
    "Knowledge Service" :> 1 @@ "Storage" :> 2 @@ "Logging" :> 3 @@ "Identity" :> 4
    @@ "Function" :> 5 @@ "Index" :> 6
StatedTeardownOrder ==
    "Knowledge Service" :> 1 @@ "Index" :> 2 @@ "Identity" :> 3 @@ "Storage" :> 4

AllDeletionsEnabled ==
    /\ loc.flags.delete_iam_roles_and_policies
    /\ cfg.kind = "unstructured" =>
           loc.flags.delete_s3_bucket /\ loc.flags.delete_lambda_function

\* every call of api a in the trace comes before every call of api b
AllBefore(a, b) == \A i \in CallsOf(a) : \A j \in CallsOf(b) : i < j

IndexDeletionCalls ==
    CallsOf("aoss.delete_collection") \cup CallsOf("neptune.update_graph")

\* C17: whatever fails in a teardown step, the later steps are attempted: a
\* finished teardown has asked for the deletion of the index, and one that
\* asked for the deletion of the collection has asked for the deletion of
\* its three policies
C17_LaterStepsAttempted ==
    (Finished("delete_kb") /\ cfg.kind = "unstructured")
    => /\ IndexDeletionCalls # {}
       /\ CallsOf("aoss.delete_collection") # {} =>
              /\ CallsOf("aoss.delete_access_policy") # {}
              /\ Cardinality(CallsOf("aoss.delete_security_policy")) = 2


(* ============================== C18 ==================================== *)
TeardownStepsCalled == {TeardownStepOfCall(trace[i]) : i \in DOMAIN trace}

\* C18 as stated: each of the buckets, the log group, the IAM role and
\* policies and the index has an option, and a teardown with every option
\* unset leaves all four untouched
C18_EveryClassHasAnOption ==
    ( /\ Finished("delete_kb")
      /\ ~ loc.flags.delete_s3_bucket
      /\ ~ loc.flags.delete_iam_roles_and_policies
      /\ ~ loc.flags.delete_lambda_function )
    => TeardownStepsCalled \cap {"Storage", "Logging", "Identity", "Index"} = {}

\* C18 (amended): the buckets, the IAM role and policies and the function are
\* touched only when their own option is set, whatever the other options
\* are; the log group and the index have no option: the log group's deletion
\* is always asked for, and the index's whenever the teardown gets that far
C18_OptionsOfThreeClasses ==
    Finished("delete_kb")
    => /\ ~ loc.flags.delete_s3_bucket =>
              /\ "Storage" \notin TeardownStepsCalled
              /\ aws.buckets = loc.before.buckets
       /\ ~ loc.flags.delete_iam_roles_and_policies =>
              /\ "Identity" \notin TeardownStepsCalled
              /\ aws.iam_roles = loc.before.iam_roles
              /\ aws.attached = loc.before.attached
              /\ aws.policy_versions = loc.before.policy_versions
       /\ ~ loc.flags.delete_lambda_function => "Function" \notin TeardownStepsCalled
       /\ cfg.kind = "unstructured" =>
              /\ "Logging" \in TeardownStepsCalled
              /\ ~ aws.log_group
              /\ hist[1].err = "ok" => "Index" \in TeardownStepsCalled

\* a teardown that was asked to delete the role and not the buckets left
\* existing buckets in place and deleted the role
C18_Witness ==
    /\ Finished("delete_kb") /\ hist[1].err = "ok"
    /\ ~ loc.flags.delete_s3_bucket /\ loc.flags.delete_iam_roles_and_policies
    /\ Range(buckets_to_check(cfg)) \cap aws.buckets # {}
    /\ kb_execution_role_name \in loc.before.iam_roles
    /\ kb_execution_role_name \notin aws.iam_roles
    /\ "Index" \in TeardownStepsCalled


(* ============================== C19 ==================================== *)
\* C19: a policy is deleted only after it was detached, and no delete call
\* is issued for a service-role policy of the provider, in the unstructured
\* and in the structured teardown
C19_ManagedPolicyNeverDeleted ==
    \A j \in CallsOf("iam.delete_policy") :
        /\ ~ is_service_role_policy(trace[j].arg)
        /\ \E i \in 1..(j - 1) : trace[i] = Call("iam.detach_role_policy", trace[j].arg)


(* ============================== C20 ==================================== *)
\* the calls that create a resource in the steps before the knowledge base
CreateCallsOfOtherSteps ==
    {i \in DOMAIN trace :
        trace[i].api \in {"logs.create_log_group",
                          "iam.create_role", "iam.create_policy",
                          "aoss.create_security_policy", "aoss.create_access_policy",
                          "aoss.create_collection", "oss.indices.create",
                          "neptune.create_graph"}}

KnowledgeBaseAttempts == Cardinality(CallsOf("bedrock.create_knowledge_base"))

\* C20: a finished provisioning run made at most 7 attempts to create the
\* knowledge base, one per pass of the decorated method; a run that completed
\* in an account whose knowledge bases fit one page of the listing made
\* exactly one attempt more than the failures the provider caused (each
\* failure is followed by one more attempt and the success by none); a run
\* that failed in this step gave up only after the 7th attempt; and no step
\* before it issued any of its create calls twice (a bucket is asked for at
\* most once per place it has in the configuration)
C20_BoundedRetry ==
    Finished("construct")
    => /\ KnowledgeBaseAttempts <= 7
       /\ KnowledgeBaseAttempts = loc.attempt
       /\ (hist[1].err = "ok" /\ aws.other_kbs < maxResults)
              => KnowledgeBaseAttempts = 1 + hist[1].faults
       /\ (hist[1].err # "ok" /\ KnowledgeBaseAttempts > 0) => KnowledgeBaseAttempts = 7
       /\ \A i, j \in CreateCallsOfOtherSteps : trace[i] = trace[j] => i = j
       /\ Cardinality(CallsOf("s3.create_bucket")) <= Len(buckets_to_check(cfg))

\* a run whose first attempt the provider failed completed with the second
C20_Witness ==
    /\ Finished("construct") /\ hist[1].err = "ok"
    /\ hist[1].faults = 1
    /\ KnowledgeBaseAttempts = 2


(* ============================== C21 ==================================== *)
\* the buckets the construction asks for, as a set
RequestedBuckets == Range(buckets_to_check(cfg))

\* the storage step of the running or last construction has returned
StorageStepReturned ==
    \/ pc \notin {"idle", "create_s3_bucket"}
    \/ Finished("construct") /\ CallsOf("logs.create_log_group") # {}

(* C21: Bucket reuse.  In every construction each requested bucket is probed
   (head_bucket) before any create call is issued; no create call is ever
   issued for a bucket whose probe answered that it exists and is accessible;
   and when the storage step has returned, every requested bucket is one
   whose probe succeeded (reused, with no create call) or one that was
   created and exists in the account. *)
C21_ProbedBeforeCreated ==
    cfg.kind = "unstructured"
    => /\ AllBefore("s3.head_bucket", "s3.create_bucket")
       /\ \A i \in CallsOf("s3.create_bucket") :
              /\ ~ head_bucket_succeeds(trace[i].arg, loc.before)
              /\ \E j \in 1..(i - 1) : trace[j] = Call("s3.head_bucket", trace[i].arg)
       /\ StorageStepReturned =>
              \A b \in RequestedBuckets :
                  \/ head_bucket_succeeds(b, loc.before)
                  \/ /\ b \in aws.buckets
                     /\ \E i \in CallsOf("s3.create_bucket") : trace[i].arg = b

\* the storage step of a construction has returned after it reused one
\* bucket and created the other
C21_Witness ==
    /\ cfg.kind = "unstructured" /\ StorageStepReturned
    /\ \E b \in RequestedBuckets :
           /\ b \in loc.before.buckets
           /\ \E j \in CallsOf("s3.head_bucket") : trace[j].arg = b
    /\ \E b \in RequestedBuckets :
           /\ b \notin loc.before.buckets
           /\ \E i \in CallsOf("s3.create_bucket") : trace[i].arg = b


(* ============================== C22 ==================================== *)
\* the last call of the trace is a create_bucket
EndsWithCreateBucket ==
    trace # <<>> /\ trace[Len(trace)].api = "s3.create_bucket"

(* C22: Foreign bucket collision.  When a requested bucket name is owned by
   another account, the storage step ends the construction: no later step
   runs.  The create call for such a name is the last remote call of the
   construction (it is not repeated), and the construction raises
   ValueError, unless the provider failed that very call for a reason of its
   own; a construction whose create call for any other bucket fails ends with
   the provider's ClientError, never with ValueError. *)
C22_ForeignBucketFatal ==
    /\ ( /\ cfg.kind = "unstructured"
         /\ RequestedBuckets \cap aws.foreign_buckets # {} )
       => ~ StorageStepReturned
    /\ \A i \in CallsOf("s3.create_bucket") :
           trace[i].arg \in aws.foreign_buckets
           => /\ i = Len(trace)
              /\ Finished("construct")
              /\ hist[1].err \in {"ValueError", "ClientError"}
              /\ hist[1].faults = 0 => hist[1].err = "ValueError"
    /\ ( /\ Finished("construct")
         /\ hist[1].err # "ok"
         /\ EndsWithCreateBucket
         /\ trace[Len(trace)].arg \notin aws.foreign_buckets )
       => hist[1].err = "ClientError"


(* ------------------------------- C23 ----------------------------------- *)
\* the create calls of the required steps: identity, index, knowledge service
IdentityAndIndexCreates ==
    { "iam.create_role", "aoss.create_security_policy",
      "aoss.create_access_policy", "aoss.create_collection",
      "oss.indices.create", "neptune.create_graph" }

KnowledgeServiceCreate == "bedrock.create_knowledge_base"

\* the failed call at place i ended the construction, and was its last call
AbortedAt(i) ==
    /\ i = Len(trace)
    /\ Finished("construct")
    /\ hist[1].err \in ProviderErrors

\* C23 as stated: when the creation of the identity, of the index or of the
\* knowledge service fails with an error other than "already exists", the
\* construction aborts, and no call is issued after the failed one.
C23_RequiredFailureAborts ==
    \A i \in loc.failed :
        trace[i].api \in IdentityAndIndexCreates \cup {KnowledgeServiceCreate}
            => AbortedAt(i)

\* C23, amended: a failed creation of the identity or of the index aborts the
\* construction at the failed call.  A failed creation of the knowledge
\* service is attempted again: only calls of the knowledge-service step
\* follow it, the first of them the create call of the next attempt, and the
\* construction does not end at the failed call while the retry decorator
\* allows another attempt.
C23_RequiredFailureAbortsOrRetries ==
    \A i \in loc.failed :
        /\ trace[i].api \in IdentityAndIndexCreates => AbortedAt(i)
        /\ trace[i].api = KnowledgeServiceCreate =>
              /\ \A j \in (i + 1)..Len(trace) : trace[j].api \in KnowledgeServiceApis
              /\ i < Len(trace) => trace[i + 1].api = KnowledgeServiceCreate
              /\ (i = Len(trace) /\ loc.attempt < stop_max_attempt_number)
                    => pc # "idle"

\* a failed index creation aborted a construction whose identity exists
C23_Witness ==
    /\ Finished("construct")
    /\ \E i \in loc.failed : /\ trace[i].api \in IdentityAndIndexCreates \ {"iam.create_role"}
                             /\ AbortedAt(i)
    /\ kb_execution_role_name \in aws.iam_roles

\* a knowledge-service creation failed and the construction went on
C23_RetryWitness ==
    \E i \in loc.failed : trace[i].api = KnowledgeServiceCreate /\ i < Len(trace)


(* ------------------------------- C24 ----------------------------------- *)
\* the calls that create, update or attach one permission document
PermissionDocumentCalls ==
    {"iam.create_policy", "iam.create_policy_version", "iam.attach_role_policy"}

\* C24: a failure of the call that creates, updates or attaches one
\* permission document is caught: it never escapes the identity step, so no
\* construction records such a call among the failed calls that ended it.
C24_PolicyFailureCaught ==
    \A i \in loc.failed : trace[i].api \notin PermissionDocumentCalls


(* ------------------------------- C25 ----------------------------------- *)
\* C25: permissions are strictly additive.  Over constructions that share
\* the policy names, whatever the default version of a permission document
\* allows before a step, it allows after it: no construction narrows a
\* document, not even one configured with fewer buckets.
C25_PermissionsOnlyGrow == [][aws.granted \subseteq aws'.granted]_vars


(* ------------------------------- C26 ----------------------------------- *)
LogDeliveryCreates ==
    { "logs.create_delivery_source", "logs.create_delivery_destination",
      "logs.create_delivery" }

LogDeliveryApis ==
    LogDeliveryCreates \cup
    {"logs.describe_delivery_sources", "logs.describe_delivery_destinations"}

\* C26: the wiring of the log delivery is not fatal.  No failed call of the
\* wiring ends a construction.  After a create call of the wiring that the
\* provider failed, the knowledge base is the one the attempt created or
\* adopted, and the attempt goes on to the connectors: the next call is the
\* first create_data_source call, or, with no descriptor, the construction
\* has returned.  After an "already exists" answer for the source or the
\* destination the wiring goes on with its next create call.
C26_LogDeliveryNonFatal ==
    /\ \A i \in loc.failed : trace[i].api \notin LogDeliveryApis
    /\ \A i \in loc.caught :
          trace[i].api \in LogDeliveryCreates =>
              /\ Cardinality(aws.kbs) = 1
              /\ loc.before.kbs \subseteq aws.kbs
              /\ IF cfg.data_sources # <<>>
                 THEN /\ i < Len(trace)
                      /\ trace[i + 1].api = "bedrock.create_data_source"
                 ELSE /\ i = Len(trace)
                      /\ Finished("construct")
                      /\ hist[1].err = "ok"
    /\ \A j \in DOMAIN trace :
          /\ trace[j].api = "logs.describe_delivery_sources"
                => j < Len(trace)
                   /\ trace[j + 1].api = "logs.create_delivery_destination"
          /\ trace[j].api = "logs.describe_delivery_destinations"
                => j < Len(trace) /\ trace[j + 1].api = "logs.create_delivery"

\* the source of the log delivery could not be created, and the construction
\* returned an orchestrator with its knowledge base and its connector
C26_Witness ==
    /\ Finished("construct")
    /\ hist[1].err = "ok"
    /\ cfg.data_sources # <<>>
    /\ \E i \in loc.caught : trace[i].api = "logs.create_delivery_source"
    /\ "source" \notin aws.deliveries
    /\ aws.data_sources # {}

\* the wiring met the source and the destination of an earlier construction
C26_AdoptionWitness ==
    /\ CallsOf("logs.describe_delivery_sources") # {}
    /\ CallsOf("logs.describe_delivery_destinations") # {}


(* ------------------------------- C27 ----------------------------------- *)
\* places of the descriptors whose type is not one of the connector types
UnknownKinds(c) ==
    {i \in DOMAIN c.data_sources : c.data_sources[i].type \notin connector_types}

\* C27: descriptors are validated before the provider is called.  A
\* construction given a descriptor of an unknown kind issues no call besides
\* the lookups of the caller's identity (so none that creates a resource,
\* and no create_data_source call), and ends in an error.
C27_DescriptorsValidatedFirst ==
    (cfg.kind = "unstructured" /\ UnknownKinds(cfg) # {}) =>
        /\ \A i \in DOMAIN trace : trace[i].api = "sts.get_caller_identity"
        /\ Finished("construct") => hist[1].err # "ok"


(* ------------------------------- C28 ----------------------------------- *)
\* both processes have called the constructor, and both calls have ended
BothConstructed ==
    /\ aws.peer # <<>>
    /\ Finished("construct")
    /\ aws.peer[1].pc = "idle"
    /\ aws.peer[1].hist # <<>>
    /\ aws.peer[1].hist[1].op = "construct"

\* C28: concurrent provisioning converges.  When two processes construct an
\* orchestrator with the same configuration at the same time, then however
\* their steps interleave, both constructions return, both orchestrators
\* hold the same role, index and knowledge base, and the provider holds at
\* most one collection, graph and knowledge base, and one connector per name.
C28_ConcurrentConvergence ==
    BothConstructed =>
        /\ hist[1].err = "ok"
        /\ aws.peer[1].hist[1].err = "ok"
        /\ self.role = aws.peer[1].self.role
        /\ self.collection_id = aws.peer[1].self.collection_id
        /\ self.graph_id = aws.peer[1].self.graph_id
        /\ self.knowledge_base = aws.peer[1].self.knowledge_base
        /\ Cardinality(aws.collections) <= 1
        /\ Cardinality(aws.graphs) <= 1
        /\ Cardinality(aws.kbs) <= 1
        /\ \A d, e \in aws.data_sources : d.name = e.name => d = e


(* ------------------------------- C29 ----------------------------------- *)
\* the provider held nothing of the account when the only construction so
\* far began, and that construction completed with no provider error
OnlyCleanConstructionBefore ==
    /\ ops = 2
    /\ hist[1].prev.op = "construct"
    /\ hist[1].prev.err = "ok"
    /\ hist[1].prev.faults = 0

\* C29: deletion is complete.  After a construction that completed, a
\* delete_kb with every deletion option set that meets no provider error
\* leaves none of the resources the construction created at the provider.
C29_NothingRemains ==
    ( /\ Finished("delete_kb")
      /\ OnlyCleanConstructionBefore
      /\ AllDeletionsEnabled
      /\ hist[1].err = "ok"
      /\ hist[1].faults = 0 )
    => Resources(aws) = {}


(* ------------------------------- C30 ----------------------------------- *)
\* the index resource of the construction exists and has left CREATING
IndexReady ==
    IF cfg.vector_store = "OPENSEARCH_SERVERLESS"
    THEN /\ \E c \in aws.collections :
               c.id = loc.new.collection_id /\ c.status # "CREATING"
         /\ loc.new.collection_id \in aws.indices
    ELSE \E g \in aws.graphs : g.id = loc.new.graph_id /\ g.status # "CREATING"

\* the calls around the knowledge base come in the order entity, wiring of
\* the log delivery, connectors
KnowledgeServiceOrdered ==
    /\ \A j \in CallsOf("logs.create_delivery_source") :
          /\ j > 1
          /\ trace[j - 1].api \in {"bedrock.create_knowledge_base",
                                   "bedrock.get_knowledge_base"}
          /\ aws.kbs # {}
    /\ \A j \in CallsOf("bedrock.create_data_source") :
          /\ j > 1
          /\ trace[j - 1].api \in LogDeliveryApis \cup {"bedrock.create_data_source"}
          /\ aws.kbs # {}

\* C30: the knowledge service depends on the role and on the index.  When
\* the unstructured constructor is about to issue create_knowledge_base, the
\* execution role exists and the index resource (the collection with its
\* vector index, or the graph) exists and has left CREATING; every
\* create_data_source call comes after the knowledge base exists, and the
\* wiring of the log delivery comes after the entity and before the first
\* create_data_source call.
C30_KnowledgeServiceAfterDependencies ==
    cfg.kind = "unstructured" =>
        /\ pc = "create_knowledge_base" =>
              /\ loc.new.role \in aws.iam_roles
              /\ IndexReady
        /\ KnowledgeServiceOrdered


(* ------------------------------- C31 ----------------------------------- *)
CollectionPolicies == {"encryption", "network", "data"}

\* the create call of a collection policy
IsPolicyCreate(call, p) ==
    /\ call.arg = p
    /\ call.api \in {"aoss.create_security_policy", "aoss.create_access_policy"}

\* C31: the vector backend is built in sequence.  The three collection
\* policies exist, each after its create call, before the create call of the
\* collection; create_oss returns, and the create call of the vector index is
\* issued, only when the collection exists with a status other than CREATING
\* that the last status request has seen.
C31_VectorBackendSequencing ==
    (cfg.kind = "unstructured" /\ cfg.vector_store = "OPENSEARCH_SERVERLESS") =>
        /\ \A i \in CallsOf("aoss.create_collection") :
              /\ CollectionPolicies \subseteq aws.aoss_policies
              /\ \A p \in CollectionPolicies :
                    \E j \in 1..(i - 1) : IsPolicyCreate(trace[j], p)
        /\ (pc = "create_vector_index" \/ CallsOf("oss.indices.create") # {}) =>
              /\ \A c \in aws.collections : c.status # "CREATING"
              /\ aws.collections # {}
              /\ \E i \in CallsOf("aoss.create_collection") :
                    \E j \in CallsOf("aoss.batch_get_collection") : i < j

\* the collection was seen in CREATING, then in another status, and the
\* vector index was created
C31_Witness ==
    /\ cfg.vector_store = "OPENSEARCH_SERVERLESS"
    /\ CallsOf("oss.indices.create") # {}
    /\ loc.new.collection_id \in aws.indices
    /\ loc.before.collections = {}
    /\ Cardinality(CallsOf("aoss.batch_get_collection")) >= 2


(* ------------------------------- C32 ----------------------------------- *)
\* create_neptune has returned in the construction at hand
CreateNeptuneReturned ==
    \/ pc = "create_knowledge_base"
    \/ CallsOf("bedrock.create_knowledge_base") # {}

\* C32: the graph is polled until it is ready.  On the graph backend,
\* create_neptune has returned, and create_knowledge_base is issued, only
\* when a status request has seen the graph in a status other than CREATING,
\* also after a status request that failed.
C32_GraphPolledUntilReady ==
    ( /\ cfg.kind = "unstructured"
      /\ cfg.vector_store = "NEPTUNE_ANALYTICS"
      /\ CreateNeptuneReturned )
    => \E g \in aws.graphs : g.id = loc.new.graph_id /\ g.status # "CREATING"


(* ------------------------------- C33 ----------------------------------- *)
\* C33: the graph is protected against deletion.  The graph a construction
\* has just created has deletion protection on.  In a teardown the
\* delete_graph call comes right after an update_graph call that has not
\* failed; when update_graph has failed, it is the last call of the
\* teardown, the graphs are as they were before it, and delete_kb returns.
C33_GraphDeletionProtected ==
    (cfg.kind = "unstructured" /\ cfg.vector_store = "NEPTUNE_ANALYTICS") =>
        /\ pc = "create_neptune_wait" =>
              \A g \in aws.graphs : g.id = loc.new.graph_id => g.deletionProtection
        /\ \A j \in CallsOf("neptune.delete_graph") :
              /\ j > 1
              /\ trace[j - 1].api = "neptune.update_graph"
              /\ (j - 1) \notin loc.caught
        /\ \A i \in loc.caught :
              trace[i].api = "neptune.update_graph" =>
                  /\ i = Len(trace)
                  /\ Finished("delete_kb")
                  /\ hist[1].err = "ok"
                  /\ aws.graphs = loc.before.graphs

\* the provider failed update_graph for a graph that exists: it is kept,
\* still protected
C33_Witness ==
    /\ Finished("delete_kb")
    /\ hist[1].faults = 1
    /\ \E i \in loc.caught : trace[i].api = "neptune.update_graph"
    /\ \E g \in aws.graphs : g.id = self.graph_id /\ g.deletionProtection

\* a teardown has switched the protection off and deleted the graph
C33_DeletedWitness ==
    /\ Finished("delete_kb")
    /\ CallsOf("neptune.delete_graph") # {}
    /\ loc.before.graphs # {}
    /\ aws.graphs = {}


(* ============ provisioning over a kept execution identity ============== *)
\* What earlier constructions of configuration c, each followed by a
\* teardown that kept the role and its policies, leave at the provider: the
\* first run creates every policy, each later run adds a version and makes it
\* the default (lines 1012-1068), and the policy of the collection keeps
\* the document of the first run (lines 1260-1270), whose collection, deleted
\* since, is given the identifier 0; runs is at most VersionCap
after_earlier_runs(c, runs, a) ==
    LET ps  == Range(execution_role_policies(c))
        oss == IF c.vector_store = "OPENSEARCH_SERVERLESS" THEN {"oss"} ELSE {}
        vs  == [i \in 1..runs |-> [id |-> i, default |-> i = runs]]
        of(p) == IF p \in ps THEN vs
                 ELSE IF p \in oss THEN first_version ELSE <<>>
    IN  IF runs = 0 THEN a
        ELSE [a EXCEPT
                !.iam_roles = {kb_execution_role_name},
                !.versions = [p \in PolicyNames |-> of(p)],
                !.policy_versions = [p \in PolicyNames |-> Len(of(p))],
                !.attached = {<<kb_execution_role_name, p>> : p \in ps \cup oss},
                !.granted = UNION {{<<p, r>> : r \in policy_document(c, p)} :
                                   p \in ps}
                            \cup {<<p, r>> : p \in oss,
                                             r \in oss_policy_document(0)}]

InitVersions ==
    /\ cfg \in TeardownConfigs
    /\ \E runs \in 0..VersionCap : \E newest \in BOOLEAN :
         aws = after_earlier_runs(cfg, runs,
                   [NoResources EXCEPT !.newest_listed_first = newest])
    /\ self = NoInstance
    /\ pc = "idle"
    /\ loc = NoLocals
    /\ trace = <<>>
    /\ err = "ok"
    /\ ret = "none"
    /\ ops = 0
    /\ faults = 0
    /\ hist = <<>>

NextVersions ==
    \/ Construct
    \/ CreateS3Bucket
    \/ CreateCloudwatchLogGroup
    \/ CreateBedrockExecutionRoleMultiDs
    \/ CreatePoliciesInOss
    \/ CreateOss
    \/ CreateOssWait
    \/ CreateVectorIndex
    \/ CreateNeptune
    \/ CreateNeptuneWait
    \/ CreateKnowledgeBase

SpecVersions == InitVersions /\ [][NextVersions]_vars

(* ------------------------------- C34 ----------------------------------- *)
VersionIds(vs) == {vs[i].id : i \in DOMAIN vs}

\* the policies that held VersionCap versions when the construction at hand
\* began and that its role step has updated
UpdatedAtCap ==
    {p \in PolicyNames :
        /\ Len(loc.before.versions[p]) = VersionCap
        /\ \E i \in CallsOf("iam.create_policy_version") : trace[i].arg = p}

\* C34: bounded policy version history.  No policy ever holds more than
\* VersionCap versions; when an update finds a policy at the cap, exactly
\* one version is deleted before the new one is created, it is the oldest
\* version that is not the default, and the default version is kept.
C34_BoundedVersionHistory ==
    /\ \A p \in PolicyNames : Len(aws.versions[p]) <= VersionCap
    /\ \A p \in UpdatedAtCap :
         LET old     == loc.before.versions[p]
             deleted == VersionIds(old) \ VersionIds(aws.versions[p])
             others  == {v \in Range(old) : ~ v.default}
         IN  /\ \E i \in CallsOf("iam.create_policy_version") :
                  /\ trace[i].arg = p
                  /\ \E j \in 1..(i - 1) :
                       /\ trace[j] = Call("iam.delete_policy_version", p)
                       /\ \A k \in CallsOf("iam.delete_policy_version") :
                            trace[k].arg = p => k = j
             /\ Cardinality(deleted) = 1
             /\ \A v \in Range(old) : v.default => v.id \notin deleted
             /\ \A v \in others :
                  v.id \in deleted => \A w \in others : v.id <= w.id


(* ------------------------------- C35 ----------------------------------- *)
\* a construction of the unstructured class has ended that began in an
\* account without resources, in which the provider failed no call and
\* every requested bucket name was free
UndisturbedConstruction ==
    /\ Finished("construct")
    /\ cfg.kind = "unstructured"
    /\ hist[1].faults = 0
    /\ hist[1].prev = NoOperation
    /\ loc.before.foreign_buckets = {}

\* C35: one connector per descriptor.  For every list of descriptors, also
\* one with two descriptors of the same kind, the provisioning run succeeds
\* with a connector list as long as the descriptor list, whose i-th
\* connector is a connector of its own, created from the i-th descriptor.
C35_OneConnectorPerDescriptor ==
    UndisturbedConstruction =>
        /\ hist[1].err = "ok"
        /\ Len(self.data_source) = Len(cfg.data_sources)
        /\ \A i \in DOMAIN self.data_source :
             /\ \E d \in aws.data_sources :
                  /\ d.dataSourceId = self.data_source[i]
                  /\ d.knowledgeBaseId = self.knowledge_base
                  /\ d.name = cfg.data_sources[i].type
             /\ \A j \in DOMAIN self.data_source :
                  i # j => self.data_source[i] # self.data_source[j]


(* ------------------------------- C36 ----------------------------------- *)
\* the connectors the provider holds for knowledge base kb
ConnectorsOf(kb) ==
    {d.dataSourceId : d \in {e \in aws.data_sources : e.knowledgeBaseId = kb}}

\* C36: no duplicates across retries.  During the attempts of
\* create_knowledge_base, whichever of them fails and at whichever call, the
\* provider holds at most one knowledge base and at most one connector per
\* knowledge base and connector name; an attempt that succeeds returns that
\* knowledge base and exactly its connectors.
C36_NoDuplicatesAcrossRetries ==
    /\ Cardinality(aws.kbs) <= 1
    /\ \A d, e \in aws.data_sources :
         (d.knowledgeBaseId = e.knowledgeBaseId /\ d.name = e.name) => d = e
    /\ ( /\ Finished("construct")
         /\ hist[1].err = "ok"
         /\ cfg.kind = "unstructured" )
       => /\ aws.kbs = {self.knowledge_base}
          /\ Range(self.data_source) = ConnectorsOf(self.knowledge_base)
          /\ Len(self.data_source) = Cardinality(ConnectorsOf(self.knowledge_base))

\* an attempt failed at the creation of the first connector, after it had
\* created the knowledge base; the next attempt fetched the knowledge base
\* and returned it with its connectors
C36_Witness ==
    /\ Finished("construct")
    /\ hist[1].err = "ok"
    /\ loc.attempt = 2
    /\ \E i \in loc.failed : trace[i].api = "bedrock.create_data_source"
    /\ CallsOf("bedrock.get_knowledge_base") # {}
    /\ self.data_source # <<>>
    /\ aws.kbs = {self.knowledge_base}

\* an attempt failed after it had created a connector: the attempts after it
\* meet that connector and none of them succeeds
C36_ExhaustedWitness ==
    /\ Finished("construct")
    /\ hist[1].err = "UnboundLocalError"
    /\ hist[1].prev = NoOperation
    /\ \E i \in loc.failed : trace[i].api = "bedrock.create_data_source"
    /\ ConnectorsOf(CHOOSE k \in aws.kbs : TRUE) # {}


(* ------------------------------- C37 ----------------------------------- *)
\* C37: collection access follows the current collection.  When a
\* construction on the vector backend has completed, a policy attached to
\* the execution role grants access to the collection the orchestrator
\* holds, also when the policy exists from an earlier run with another
\* collection and when the attach call fails.
C37_CollectionAccessFollowsCollection ==
    ( /\ Finished("construct")
      /\ hist[1].err = "ok"
      /\ cfg.kind = "unstructured"
      /\ cfg.vector_store = "OPENSEARCH_SERVERLESS" )
    => \E p \in PolicyNames :
         /\ <<self.role, p>> \in aws.attached
         /\ \E r \in oss_policy_document(self.collection_id) :
              <<p, r>> \in aws.granted


(* ============== provisioning, then ingestion, fault by fault =========== *)
\* Constructions of orchestrators of the unstructured class and ingestions
\* with the connectors they hold.
IngestionConfigs == {c \in ProvisioningConfigs : c.kind = "unstructured"}

InitIngestion ==
    /\ cfg \in IngestionConfigs
    /\ aws = NoResources
    /\ self = NoInstance
    /\ pc = "idle"
    /\ loc = NoLocals
    /\ trace = <<>>
    /\ err = "ok"
    /\ ret = "none"
    /\ ops = 0
    /\ faults = 0
    /\ hist = <<>>

\* the steps the running operation takes
IngestionSteps ==
    \/ CreateS3Bucket
    \/ CreateCloudwatchLogGroup
    \/ CreateBedrockExecutionRoleMultiDs
    \/ CreatePoliciesInOss
    \/ CreateOss
    \/ CreateOssWait
    \/ CreateVectorIndex
    \/ CreateNeptune
    \/ CreateNeptuneWait
    \/ CreateKnowledgeBase
    \/ IngestStart
    \/ IngestPoll

NextIngestion ==
    \/ Construct
    \/ StartIngestionJob
    \/ IngestionSteps

SpecIngestion == InitIngestion /\ [][NextIngestion]_vars

(* ------------------------------- C38 ----------------------------------- *)
\* the job of the i-th visited connector runs at the provider
JobRuns(i) == loc.jobs[i] \notin TerminalStatuses \cup {"none"}

\* the calls of the ingestion at hand that name the i-th connector
CallsAbout(i) ==
    {p \in DOMAIN trace : trace[p].arg = ToString(self.data_source[i])}

\* the start call of a connector is issued only after the iteration of the
\* connector before it has ended, with a terminal status observed or with a
\* failed request, and after every call about that connector
StartsInSequence ==
    (pc \in {"ingest_start", "ingest_poll"} \/ Finished("ingest")) =>
        \A k \in DOMAIN loc.jobs :
            k > 1 =>
              /\ Len(loc.results) >= k - 1
              /\ loc.results[k - 1] \in TerminalStatuses \cup {"exception"}
              /\ loc.results[k - 1] \in TerminalStatuses
                     => loc.jobs[k - 1] = loc.results[k - 1]
              /\ \A p \in CallsAbout(k - 1) : \A q \in CallsAbout(k) : p < q

\* C38 as stated: ingestion jobs never overlap, and the start call for
\* connector i+1 is issued only after the job of connector i was observed in
\* a terminal status or its start or polling failed.
C38_JobsNeverOverlap ==
    /\ StartsInSequence
    /\ \A i, j \in DOMAIN loc.jobs : (i < j /\ JobRuns(j)) => ~ JobRuns(i)

\* C38: sequential ingestion.  The start call for connector i+1 is issued
\* only after the job of connector i was observed in a terminal status or
\* its start or polling failed; two jobs run at the provider at once only
\* when a status request of the earlier one failed, which ends the waiting
\* for that job but not the job.
C38_SequentialIngestion ==
    /\ StartsInSequence
    /\ \A i, j \in DOMAIN loc.jobs :
         (i < j /\ JobRuns(j) /\ JobRuns(i)) =>
             /\ loc.results[i] = "exception"
             /\ \E p \in CallsAbout(i) : trace[p].api = "bedrock.get_ingestion_job"

\* the job of the first connector was polled to a terminal status, then the
\* job of the second one was started and polled to a terminal status
C38_Witness ==
    /\ Finished("ingest")
    /\ Len(loc.results) = 2
    /\ loc.results[1] \in TerminalStatuses
    /\ loc.results[2] \in TerminalStatuses
    /\ Cardinality({p \in CallsAbout(1) :
                       trace[p].api = "bedrock.get_ingestion_job"}) >= 2

\* a status request of the first job failed and the second job was started
\* while the first one was in progress
C38_OverlapWitness ==
    /\ pc = "ingest_poll"
    /\ Len(loc.jobs) = 2
    /\ JobRuns(1)
    /\ JobRuns(2)


(* ------------------------------- C39 ----------------------------------- *)
\* The orchestrator is one synchronous thread: an operation that has begun
\* takes its next step until it returns or raises.  The provider answers
\* every request, and it reports a collection or a graph in CREATING, and a
\* job in a non-terminal status, to at most MaxPolls requests.
SpecIngestionFair == SpecIngestion /\ WF_vars(IngestionSteps)

\* a polling loop is left only on the answer that ends it or on a failed
\* request: the loop of create_oss on a status other than CREATING, the loop
\* of create_neptune on such a status or on an error, the loop of
\* start_ingestion_job on a terminal status or on an error
LoopsLeftOnAnswer ==
    /\ (pc = "create_oss_wait" /\ pc' # pc) =>
           \A c \in aws'.collections : c.status # "CREATING"
    /\ (pc = "create_neptune_wait" /\ pc' # pc) =>
           \/ \A g \in aws'.graphs : g.status # "CREATING"
           \/ faults' > faults
    /\ (pc = "ingest_poll" /\ pc' # pc) =>
           \/ loc.job \in TerminalStatuses
           \/ faults' > faults

C39_IngestionWitness ==
    /\ Finished("ingest")
    /\ \E i \in DOMAIN loc.results :
         /\ loc.results[i] \in TerminalStatuses
         /\ Cardinality({p \in CallsAbout(i) :
                            trace[p].api = "bedrock.get_ingestion_job"}) >= 2
    /\ Len(loc.results) = 1

====
